---- MODULE Spec2Model ----
(***************************************************************************)
(* PII sanitization and prompt building of the AdMesh TypeScript SDK:      *)
(* the pattern library (patterns.ts), the PIISanitizer (recommend.ts), the *)
(* PromptBuilder (builder.ts) and the sanitizeAndBuild entry point.        *)
(*                                                                         *)
(* Texts are TLA+ strings.  Positions are 0-based as in JavaScript: the    *)
(* character at position i of t is At(t, i) and t.substring(a, b) is       *)
(* Slice(t, a, b).  Every regular expression of the pattern library is an  *)
(* operator XxxAt(t, i) giving the match the engine finds when it tries    *)
(* the pattern anchored at position i (greedy quantifiers, ordered         *)
(* alternation, backtracking), and RegExp.prototype.exec on a /g pattern   *)
(* is Exec: the leftmost such match at or after the pattern's lastIndex.   *)
(***************************************************************************)
EXTENDS Integers, Sequences, FiniteSets, TLC

-----------------------------------------------------------------------------
(* Characters and strings *)

DigitSeq == "0123456789"

At(t, i) == IF i >= 0 /\ i < Len(t) THEN SubSeq(t, i + 1, i + 1) ELSE ""

Slice(t, a, b) == IF a < b THEN SubSeq(t, a + 1, b) ELSE ""

UpperChars ==
    {"A", "B", "C", "D", "E", "F", "G", "H", "I", "J", "K", "L", "M",
    "N", "O", "P", "Q", "R", "S", "T", "U", "V", "W", "X", "Y", "Z"}

LowerChars ==
    {"a", "b", "c", "d", "e", "f", "g", "h", "i", "j", "k", "l", "m",
    "n", "o", "p", "q", "r", "s", "t", "u", "v", "w", "x", "y", "z"}

Digits == {"0", "1", "2", "3", "4", "5", "6", "7", "8", "9"}

Letters == UpperChars \cup LowerChars

\* \w
WordChars == Letters \cup Digits \cup {"_"}

\* \s (the white space of the modelled alphabet)
SpaceChars == {" ", "\t", "\n"}

\* the lower-case letter of every upper-case letter
LowerMap ==
    [A |-> "a", B |-> "b", C |-> "c", D |-> "d", E |-> "e", F |-> "f", G |-> "g",
    H |-> "h", I |-> "i", J |-> "j", K |-> "k", L |-> "l", M |-> "m", N |-> "n",
    O |-> "o", P |-> "p", Q |-> "q", R |-> "r", S |-> "s", T |-> "t", U |-> "u",
    V |-> "v", W |-> "w", X |-> "x", Y |-> "y", Z |-> "z"]

\* the upper-case letter of every lower-case letter
UpperMap ==
    [a |-> "A", b |-> "B", c |-> "C", d |-> "D", e |-> "E", f |-> "F", g |-> "G",
    h |-> "H", i |-> "I", j |-> "J", k |-> "K", l |-> "L", m |-> "M", n |-> "N",
    o |-> "O", p |-> "P", q |-> "Q", r |-> "R", s |-> "S", t |-> "T", u |-> "U",
    v |-> "V", w |-> "W", x |-> "X", y |-> "Y", z |-> "Z"]

LowerChar(c) == IF c \in UpperChars THEN LowerMap[c] ELSE c

UpperChar(c) == IF c \in LowerChars THEN UpperMap[c] ELSE c

SetMin(S) == CHOOSE x \in S : \A y \in S : x <= y

SetMax(S) == CHOOSE x \in S : \A y \in S : y <= x

\* the concatenation of the strings ps[a], ..., ps[b]
RECURSIVE Concat(_, _, _)
Concat(ps, a, b) ==
    IF a > b THEN ""
    ELSE IF a = b THEN ps[a]
    ELSE LET m == (a + b) \div 2 IN Concat(ps, a, m) \o Concat(ps, m + 1, b)

\* String.prototype.toLowerCase
toLowerCase(s) == Concat([k \in 1..Len(s) |-> LowerChar(At(s, k - 1))], 1, Len(s))

\* String.prototype.toUpperCase
toUpperCase(s) == Concat([k \in 1..Len(s) |-> UpperChar(At(s, k - 1))], 1, Len(s))

\* end of the maximal run of characters of class cls that starts at i
RunEnd(t, i, cls) ==
    IF i >= Len(t) THEN i
    ELSE CHOOSE j \in i..Len(t) : At(t, j) \notin cls /\ \A k \in i..(j - 1) : At(t, k) \in cls

\* start of the maximal run of characters of class cls that ends at i
RunStart(t, i, cls) ==
    IF i <= 0 THEN i
    ELSE CHOOSE j \in 0..i : At(t, j - 1) \notin cls /\ \A k \in j..(i - 1) : At(t, k) \in cls

\* String.prototype.trim
trim(s) ==
    LET a == RunEnd(s, 0, SpaceChars)
        b == RunStart(s, Len(s), SpaceChars)
    IN  Slice(s, a, b)

\* String.prototype.startsWith
startsWith(s, p) == Len(p) <= Len(s) /\ Slice(s, 0, Len(p)) = p

\* position of the first occurrence of p in s at or after i, -1 if none
indexOfFrom(s, p, i) ==
    LET is == {j \in i..(Len(s) - Len(p)) : Slice(s, j, j + Len(p)) = p}
    IN  IF is = {} THEN -1 ELSE SetMin(is)

\* String.prototype.indexOf
indexOf(s, p) == indexOfFrom(s, p, 0)

\* String.prototype.includes
includes(s, p) == indexOf(s, p) >= 0

-----------------------------------------------------------------------------
(* Regular expression building blocks *)

\* \b at position i
IsBoundary(t, i) == (At(t, i - 1) \in WordChars) # (At(t, i) \in WordChars)

\* a literal under the i flag (lit is given in lower case)
LitCI(t, i, lit) ==
    /\ i + Len(lit) <= Len(t)
    /\ LowerChar(At(t, i)) = At(lit, 0)
    /\ toLowerCase(Slice(t, i, i + Len(lit))) = lit

\* a literal without the i flag
Lit(t, i, lit) == i + Len(lit) <= Len(t) /\ Slice(t, i, i + Len(lit)) = lit

\* the ends of (?:l1|l2|...) tried at i under the i flag, in alternation order
AltEnds(t, i, lits) ==
    SelectSeq([k \in 1..Len(lits) |-> IF LitCI(t, i, lits[k]) THEN i + Len(lits[k]) ELSE -1],
              LAMBDA e : e >= 0)

NoMatch == [index |-> -1, end |-> -1, groups |-> <<>>]

Match(i, e, gs) == [index |-> i, end |-> e, groups |-> gs]

\* the first element of a sequence of candidate matches that is a match
FirstMatch(cands) ==
    LET ks == {k \in 1..Len(cands) : cands[k].index >= 0}
    IN  IF ks = {} THEN NoMatch ELSE cands[SetMin(ks)]

-----------------------------------------------------------------------------
(* patterns.ts: NAME_PATTERNS *)

\* ([A-Z][a-z]+(?:\s+[A-Z][a-z]+)?) tried at p under the i flag, where both
\* classes match any letter: the ends of the capture in the order the engine
\* tries them: two words first, then one word.  A shorter word is never
\* followed by what the patterns require next (\b or \s), as it ends inside
\* a run of letters.
NameEnds(t, p) ==
    LET w1 == RunEnd(t, p, Letters)
        s2 == RunEnd(t, w1, SpaceChars)
        w2 == RunEnd(t, s2, Letters)
    IN  IF w1 - p < 2 THEN <<>>
        ELSE IF s2 > w1 /\ w2 - s2 >= 2 THEN <<w2, w1>>
        ELSE <<w1>>

\* (name)\b   or   (name)\s+here\b   with the name from p to one of ends, of
\* a match that starts at i
NameCapture(t, i, p, ends, here) ==
    LET h(e) == RunEnd(t, e, SpaceChars)
        ok(e) == IF here
                 THEN h(e) > e /\ LitCI(t, h(e), "here") /\ IsBoundary(t, h(e) + 4)
                 ELSE IsBoundary(t, e)
        stop(e) == IF here THEN h(e) + 4 ELSE e
    IN  FirstMatch([k \in 1..Len(ends) |->
            IF ok(ends[k]) THEN Match(i, stop(ends[k]), <<Slice(t, p, ends[k])>>)
            ELSE NoMatch])

\* \s+(name)\b   or   \s+(name)\s+here\b   after an introduction ending at a
NameTail(t, i, a, here) ==
    LET p == RunEnd(t, a, SpaceChars)
    IN  IF p = a THEN NoMatch ELSE NameCapture(t, i, p, NameEnds(t, p), here)

\* (?:I'?m|my name is|I am|call me)
Intros1 == <<"i'm", "im", "my name is", "i am", "call me">>

\* (?:I'?m|my name is|I am)
Intros2 == <<"i'm", "im", "my name is", "i am">>

\* (?:hi|hello|hey)
Greetings == <<"hi", "hello", "hey">>

\* /\b(?:I'?m|my name is|I am|call me)\s+([A-Z][a-z]+(?:\s+[A-Z][a-z]+)?)\b/gi
Name0At(t, i) ==
    IF ~IsBoundary(t, i) THEN NoMatch
    ELSE LET as == AltEnds(t, i, Intros1)
         IN  FirstMatch([k \in 1..Len(as) |-> NameTail(t, i, as[k], FALSE)])

\* /\b(?:hi|hello|hey),?\s+(?:I'?m|my name is|I am)\s+([A-Z][a-z]+(?:\s+[A-Z][a-z]+)?)\b/gi
Name1At(t, i) ==
    IF ~IsBoundary(t, i) THEN NoMatch
    ELSE LET gs == AltEnds(t, i, Greetings)
             after(g) == LET c == IF At(t, g) = "," THEN g + 1 ELSE g
                             s == RunEnd(t, c, SpaceChars)
                             as == IF s > c THEN AltEnds(t, s, Intros2) ELSE <<>>
                         IN  FirstMatch([k \in 1..Len(as) |-> NameTail(t, i, as[k], FALSE)])
         IN  FirstMatch([k \in 1..Len(gs) |-> after(gs[k])])

\* /\b(?:this is)\s+([A-Z][a-z]+(?:\s+[A-Z][a-z]+)?)\s+here\b/gi
Name2At(t, i) ==
    IF ~IsBoundary(t, i) \/ ~LitCI(t, i, "this is") THEN NoMatch
    ELSE NameTail(t, i, i + 7, TRUE)

-----------------------------------------------------------------------------
(* patterns.ts: EMAIL_PATTERN *)

\* [A-Za-z0-9._%+-]
LocalChars == Letters \cup Digits \cup {".", "_", "%", "+", "-"}

\* [A-Za-z0-9.-]
DomainChars == Letters \cup Digits \cup {".", "-"}

\* [A-Z|a-z]
TldChars == Letters \cup {"|"}

\* [A-Z|a-z]{2,}\b tried at s: the longest top-level domain that ends at a
\* word boundary, -1 if there is none
TldEnd(t, s) ==
    LET r == RunEnd(t, s, TldChars)
        es == {e \in (s + 2)..r : IsBoundary(t, e)}
    IN  IF es = {} THEN -1 ELSE SetMax(es)

\* /\b[A-Za-z0-9._%+-]+@[A-Za-z0-9.-]+\.[A-Z|a-z]{2,}\b/g
\* The greedy domain gives characters back until it ends before a dot that a
\* top-level domain follows: the last such dot of the run wins.
EmailAt(t, i) ==
    IF ~(At(t, i) \in LocalChars /\ IsBoundary(t, i)) THEN NoMatch
    ELSE LET a == RunEnd(t, i, LocalChars)
             d == RunEnd(t, a + 1, DomainChars)
             ks == {k \in (a + 2)..(d - 1) : At(t, k) = "." /\ TldEnd(t, k + 1) >= 0}
         IN  IF At(t, a) # "@" \/ ks = {} THEN NoMatch
             ELSE Match(i, TldEnd(t, SetMax(ks) + 1), <<>>)

-----------------------------------------------------------------------------
(* patterns.ts: PHONE_PATTERNS *)

\* [-\s]
DashSpace == SpaceChars \cup {"-"}

\* x? for a one-character class x: the position after it
Opt(t, j, cls) == IF At(t, j) \in cls THEN j + 1 ELSE j

\* \d{n} at j
IsDigits(t, j, n) == \A k \in 0..(n - 1) : At(t, j + k) \in Digits

\* (\d{3})sep(\d{3})sep(\d{4})\b with the first group at a and the second at b
ThreeGroups(t, i, a, b, c) ==
    IF IsDigits(t, a, 3) /\ IsDigits(t, b, 3) /\ IsDigits(t, c, 4) /\ IsBoundary(t, c + 4)
    THEN Match(i, c + 4, <<Slice(t, a, a + 3), Slice(t, b, b + 3), Slice(t, c, c + 4)>>)
    ELSE NoMatch

\* /\+1[-\s]?\(?(\d{3})\)?[-\s]?(\d{3})[-\s]?(\d{4})\b/g
\* An optional separator or parenthesis that is present is consumed: what
\* follows it in the pattern never matches the character itself.
Phone0At(t, i) ==
    IF ~Lit(t, i, "+1") THEN NoMatch
    ELSE LET a == Opt(t, Opt(t, i + 2, DashSpace), {"("})
             b == Opt(t, Opt(t, a + 3, {")"}), DashSpace)
             c == Opt(t, b + 3, DashSpace)
         IN  ThreeGroups(t, i, a, b, c)

\* /\((\d{3})\)\s?(\d{3})[-\s]?(\d{4})\b/g
Phone1At(t, i) ==
    IF At(t, i) # "(" \/ At(t, i + 4) # ")" THEN NoMatch
    ELSE LET b == Opt(t, i + 5, SpaceChars)
             c == Opt(t, b + 3, DashSpace)
         IN  ThreeGroups(t, i, i + 1, b, c)

\* /\b(\d{3})[-.](\d{3})[-.](\d{4})\b/g
Phone2At(t, i) ==
    IF ~(IsBoundary(t, i) /\ At(t, i + 3) \in {"-", "."} /\ At(t, i + 7) \in {"-", "."})
    THEN NoMatch
    ELSE ThreeGroups(t, i, i, i + 4, i + 8)

\* /\b(\d{3})\s(\d{3})\s(\d{4})\b/g
Phone3At(t, i) ==
    IF ~(IsBoundary(t, i) /\ At(t, i + 3) \in SpaceChars /\ At(t, i + 7) \in SpaceChars)
    THEN NoMatch
    ELSE ThreeGroups(t, i, i, i + 4, i + 8)

\* /\+\d{1,3}[-\s]?\d{1,14}\b/g : every way to split the match, in the order
\* the engine tries them (each quantifier greedy: longest first)
Phone4At(t, i) ==
    IF At(t, i) # "+" \/ At(t, i + 1) \notin Digits THEN NoMatch
    ELSE FirstMatch([k \in 1..84 |->
            LET a == 3 - ((k - 1) \div 28)
                s == 1 - (((k - 1) % 28) \div 14)
                b == 14 - ((k - 1) % 14)
                e == i + 1 + a + s + b
            IN  IF /\ IsDigits(t, i + 1, a)
                   /\ (s = 1 => At(t, i + 1 + a) \in DashSpace)
                   /\ IsDigits(t, i + 1 + a + s, b)
                   /\ IsBoundary(t, e)
                THEN Match(i, e, <<>>) ELSE NoMatch])

-----------------------------------------------------------------------------
(* patterns.ts: AGE_PATTERNS *)

\* (\d{1,2}) at p: the ends in the order tried (two digits, then one)
AgeEnds(t, p) ==
    IF IsDigits(t, p, 2) THEN <<p + 2, p + 1>>
    ELSE IF IsDigits(t, p, 1) THEN <<p + 1>>
    ELSE <<>>

\* (?:I'?m|I am)
AgeIntros == <<"i'm", "im", "i am">>

\* /\b(?:I'?m|I am)\s+(\d{1,2})\b/gi
Age0At(t, i) ==
    IF ~IsBoundary(t, i) THEN NoMatch
    ELSE LET as == AltEnds(t, i, AgeIntros)
             after(a) == LET p == RunEnd(t, a, SpaceChars)
                             es == IF p > a THEN AgeEnds(t, p) ELSE <<>>
                         IN  FirstMatch([k \in 1..Len(es) |->
                                IF IsBoundary(t, es[k])
                                THEN Match(i, es[k], <<Slice(t, p, es[k])>>) ELSE NoMatch])
         IN  FirstMatch([k \in 1..Len(as) |-> after(as[k])])

\* (?:years?\s*old|yr\s*old|y\.?o\.?) at w: the ends in the order tried
YearsOldEnds(t, w) ==
    LET old(x) == LET y == RunEnd(t, x, SpaceChars)
                  IN  IF LitCI(t, y, "old") THEN <<y + 3>> ELSE <<>>
        years == IF LitCI(t, w, "year")
                 THEN old(IF LowerChar(At(t, w + 4)) = "s" THEN w + 5 ELSE w + 4)
                 ELSE <<>>
        yr == IF LitCI(t, w, "yr") THEN old(w + 2) ELSE <<>>
        o(x) == IF LowerChar(At(t, x)) = "o"
                THEN (IF At(t, x + 1) = "." THEN <<x + 2, x + 1>> ELSE <<x + 1>>)
                ELSE <<>>
        yo == IF LowerChar(At(t, w)) = "y"
              THEN (IF At(t, w + 1) = "." THEN o(w + 2) \o o(w + 1) ELSE o(w + 1))
              ELSE <<>>
    IN  years \o yr \o yo

\* [-\s]?year[-\s]?old at d: its end
YearOldEnds(t, d) ==
    LET y == Opt(t, d, DashSpace)
        o == Opt(t, y + 4, DashSpace)
    IN  IF LitCI(t, y, "year") /\ LitCI(t, o, "old") THEN <<o + 3>> ELSE <<>>

\* \b at one of the ends es of the tail of AGE_PATTERNS[1] or AGE_PATTERNS[2],
\* the first in the order tried, of a match that starts at i with digits to d
AgeTail(t, i, d, es) ==
    FirstMatch([k \in 1..Len(es) |->
        IF IsBoundary(t, es[k]) THEN Match(i, es[k], <<Slice(t, i, d)>>) ELSE NoMatch])

\* /\b(\d{1,2})\s*(?:years?\s*old|yr\s*old|y\.?o\.?)\b/gi   (years)   and
\* /\b(\d{1,2})[-\s]?year[-\s]?old\b/gi   (not years)
AgeThen(t, i, years) ==
    IF ~(At(t, i) \in Digits /\ IsBoundary(t, i)) THEN NoMatch
    ELSE LET ds == AgeEnds(t, i)
             after(d) == AgeTail(t, i, d, IF years THEN YearsOldEnds(t, RunEnd(t, d, SpaceChars))
                                          ELSE YearOldEnds(t, d))
         IN  FirstMatch([k \in 1..Len(ds) |-> after(ds[k])])

\* /\bage[:\s]+(\d{1,2})\b/gi
Age3At(t, i) ==
    IF ~(IsBoundary(t, i) /\ LitCI(t, i, "age")) THEN NoMatch
    ELSE LET p == RunEnd(t, i + 3, SpaceChars \cup {":"})
             es == IF p > i + 3 THEN AgeEnds(t, p) ELSE <<>>
         IN  FirstMatch([k \in 1..Len(es) |->
                IF IsBoundary(t, es[k])
                THEN Match(i, es[k], <<Slice(t, p, es[k])>>) ELSE NoMatch])

-----------------------------------------------------------------------------
(* patterns.ts: GENDER_PATTERNS *)

\* (male|female|man|woman|guy|girl|boy|gentleman|lady)
GenderWords0 == <<"male", "female", "man", "woman", "guy", "girl", "boy", "gentleman", "lady">>

\* (male|female|man|woman|guy|girl)
GenderWords1 == <<"male", "female", "man", "woman", "guy", "girl">>

\* (?:I'?m a|I am a)
GenderIntros == <<"i'm a", "im a", "i am a">>

\* (w1|w2|...)\b at p, of a match that starts at i
GenderWordAt(t, i, p, words) ==
    LET es == AltEnds(t, p, words)
    IN  FirstMatch([k \in 1..Len(es) |->
            IF IsBoundary(t, es[k])
            THEN Match(i, es[k], <<Slice(t, p, es[k])>>) ELSE NoMatch])

\* /\b(male|female|man|woman|guy|girl|boy|gentleman|lady)\b/gi
Gender0At(t, i) ==
    IF ~IsBoundary(t, i) THEN NoMatch ELSE GenderWordAt(t, i, i, GenderWords0)

\* /\b(?:I'?m a|I am a)\s+(male|female|man|woman|guy|girl)\b/gi
Gender1At(t, i) ==
    IF ~IsBoundary(t, i) THEN NoMatch
    ELSE LET as == AltEnds(t, i, GenderIntros)
             after(a) == LET p == RunEnd(t, a, SpaceChars)
                         IN  IF p > a THEN GenderWordAt(t, i, p, GenderWords1) ELSE NoMatch
         IN  FirstMatch([k \in 1..Len(as) |-> after(as[k])])

-----------------------------------------------------------------------------
(* patterns.ts: GOAL_PATTERNS *)

\* end of the maximal run of characters outside excl that starts at i
RunEndNot(t, i, excl) ==
    IF i >= Len(t) THEN i ELSE SetMin({j \in i..Len(t) : j = Len(t) \/ At(t, j) \in excl})

\* (?:building|creating|developing|making|working on|starting|launching)
GoalVerbs == <<"building", "creating", "developing", "making", "working on", "starting", "launching">>

\* (?:want to|need to|trying to|planning to|looking to)
GoalWishes == <<"want to", "need to", "trying to", "planning to", "looking to">>

\* (?:project|app|website|business|startup|company|tool|platform|service)
GoalNouns == <<"project", "app", "website", "business", "startup", "company", "tool", "platform", "service">>

\* (?:for|about|that)
GoalPreps == <<"for", "about", "that">>

\* /\b((?:w1|w2|...)\s+(?:a\s+)?[^.!?,]+)/gi with optA, /\b((?:w1|...)\s+[^.!?,]+)/gi
\* without.  White space and "a" are in the class [^.!?,], so whatever \s+
\* and (?:a\s+)? take or give back, the greedy class ends the match at the end
\* of the run of class characters; a match needs one white space for \s+ and
\* one more class character.
LedGoalAt(t, i, words) ==
    IF ~IsBoundary(t, i) THEN NoMatch
    ELSE LET vs == AltEnds(t, i, words)
             after(j) == LET e == RunEndNot(t, j, {".", "!", "?", ","})
                         IN  IF At(t, j) \in SpaceChars /\ e >= j + 2
                             THEN Match(i, e, <<Slice(t, i, e)>>) ELSE NoMatch
         IN  FirstMatch([k \in 1..Len(vs) |-> after(vs[k])])

\* /\b(?:project|...|service)\s+(?:for|about|that)\s+([^.!?]+)/gi
\* The second \s+ takes the whole white space; when no class character
\* follows it, it gives back its last character, which the class then takes.
Goal2At(t, i) ==
    IF ~IsBoundary(t, i) THEN NoMatch
    ELSE LET ns == AltEnds(t, i, GoalNouns)
             capture(q) ==
                LET k == RunEnd(t, q, SpaceChars)
                    e == RunEndNot(t, k, {".", "!", "?"})
                IN  IF k = q THEN NoMatch
                    ELSE IF e > k THEN Match(i, e, <<Slice(t, k, e)>>)
                    ELSE IF k - q >= 2 THEN Match(i, k, <<Slice(t, k - 1, k)>>)
                    ELSE NoMatch
             after(n) ==
                LET s == RunEnd(t, n, SpaceChars)
                    ps == IF s > n THEN AltEnds(t, s, GoalPreps) ELSE <<>>
                IN  FirstMatch([k \in 1..Len(ps) |-> capture(ps[k])])
         IN  FirstMatch([k \in 1..Len(ns) |-> after(ns[k])])

-----------------------------------------------------------------------------
(* The module-level pattern objects and RegExp.prototype.exec *)

\* COMPILED_PATTERNS.names, .phones, .ages, .genders, .goals; SINGLE_PATTERNS.email
NamePatterns == <<"names0", "names1", "names2">>

PhonePatterns == <<"phones0", "phones1", "phones2", "phones3", "phones4">>

AgePatterns == <<"ages0", "ages1", "ages2", "ages3">>

GenderPatterns == <<"genders0", "genders1">>

GoalPatterns == <<"goals0", "goals1", "goals2">>

EmailPattern == "email"

Range(f) == {f[k] : k \in DOMAIN f}

PatternIds ==
    Range(NamePatterns) \cup Range(PhonePatterns) \cup Range(AgePatterns)
        \cup Range(GenderPatterns) \cup Range(GoalPatterns) \cup {EmailPattern}

\* the match of pattern p anchored at position i of t
MatchAt(p, t, i) ==
    CASE p = "names0" -> Name0At(t, i)
      [] p = "names1" -> Name1At(t, i)
      [] p = "names2" -> Name2At(t, i)
      [] p = "email" -> EmailAt(t, i)
      [] p = "phones0" -> Phone0At(t, i)
      [] p = "phones1" -> Phone1At(t, i)
      [] p = "phones2" -> Phone2At(t, i)
      [] p = "phones3" -> Phone3At(t, i)
      [] p = "phones4" -> Phone4At(t, i)
      [] p = "ages0" -> Age0At(t, i)
      [] p = "ages1" -> AgeThen(t, i, TRUE)
      [] p = "ages2" -> AgeThen(t, i, FALSE)
      [] p = "ages3" -> Age3At(t, i)
      [] p = "genders0" -> Gender0At(t, i)
      [] p = "genders1" -> Gender1At(t, i)
      [] p = "goals0" -> LedGoalAt(t, i, GoalVerbs)
      [] p = "goals1" -> LedGoalAt(t, i, GoalWishes)
      [] p = "goals2" -> Goal2At(t, i)

\* the leftmost match of p in t that starts at or after i
SearchFrom(p, t, i) ==
    FirstMatch([k \in 1..(Len(t) - i + 1) |-> MatchAt(p, t, i + k - 1)])

\* what exec returns and leaves when its search gives m: the match (NoMatch
\* for null) and lastIndex, the end of the match, or 0 after a failure
ExecResult(m) == [match |-> m, lastIndex |-> IF m.index >= 0 THEN m.end ELSE 0]

\* pattern.exec(text) of a pattern with the g flag whose lastIndex is li
Exec(p, t, li) == ExecResult(SearchFrom(p, t, li))

-----------------------------------------------------------------------------
(* JavaScript values *)

JsUndefined == [type |-> "undefined"]

JsNull == [type |-> "null"]

JsNum(n) == [type |-> "number", num |-> n]

JsStr(s) == [type |-> "string", str |-> s]

JsBool(b) == [type |-> "boolean", bool |-> b]

JsObject == [type |-> "object"]

\* the typeof operator
typeof(v) == IF v.type = "null" THEN "object" ELSE v.type

\* ToBoolean
Truthy(v) ==
    CASE v.type = "undefined" -> FALSE
      [] v.type = "null" -> FALSE
      [] v.type = "number" -> v.num # 0
      [] v.type = "string" -> v.str # ""
      [] v.type = "boolean" -> v.bool
      [] v.type = "object" -> TRUE

\* the value of a string of decimal digits
RECURSIVE DigitsValue(_, _)
DigitsValue(s, acc) ==
    IF s = "" THEN acc
    ELSE DigitsValue(Slice(s, 1, Len(s)),
                     10 * acc + (CHOOSE d \in 0..9 : At(DigitSeq, d) = At(s, 0)))

\* parseInt(s, 10) of a string without sign or leading white space: the value
\* of its leading digits; NaN, which compares false with every number, is -1
parseInt(s) ==
    LET e == RunEnd(s, 0, Digits)
    IN  IF e = 0 THEN -1 ELSE DigitsValue(Slice(s, 0, e), 0)

\* Number.prototype.toString of an integer
RECURSIVE NatToString(_)
NatToString(n) ==
    IF n < 10 THEN At(DigitSeq, n) ELSE NatToString(n \div 10) \o At(DigitSeq, n % 10)

toString(n) == IF n < 0 THEN "-" \o NatToString(0 - n) ELSE NatToString(n)

\* GetSubstitution for a replacement without captures: $$ is a dollar sign,
\* $& the matched text, $' the text after the match ($ before a grave accent,
\* the text before the match, is left out: the modelled alphabet has no
\* grave accent)
RECURSIVE GetSubstitution(_, _, _, _)
GetSubstitution(repl, matched, before, after) ==
    LET d == indexOf(repl, "$")
        n == At(repl, d + 1)
        rest(k) == GetSubstitution(Slice(repl, d + k, Len(repl)), matched, before, after)
    IN  IF d < 0 THEN repl
        ELSE Slice(repl, 0, d) \o
             (IF n = "$" THEN "$" \o rest(2)
              ELSE IF n = "&" THEN matched \o rest(2)
              ELSE IF n = "'" THEN after \o rest(2)
              ELSE "$" \o rest(1))

\* String.prototype.replace(pattern, replacement) with a string pattern: only
\* the first occurrence is replaced
replace(s, pat, repl) ==
    LET i == indexOf(s, pat)
    IN  IF i < 0 THEN s
        ELSE LET before == Slice(s, 0, i)
                 after == Slice(s, i + Len(pat), Len(s))
             IN  before \o GetSubstitution(repl, pat, before, after) \o after

-----------------------------------------------------------------------------
(* patterns.ts: helpers *)

COMMON_WORDS == {
    "about", "after", "again", "against", "all", "am", "an", "and", "any", "are", "as", "at",
    "be", "been", "before", "being", "below", "between", "both", "but", "by", "can", "did",
    "do", "does", "doing", "don", "down", "during", "each", "few", "for", "from", "further",
    "had", "has", "have", "having", "he", "her", "here", "hers", "herself", "him", "himself",
    "his", "how", "if", "in", "into", "is", "it", "its", "itself", "just", "me", "more",
    "most", "my", "myself", "no", "nor", "not", "now", "of", "off", "on", "once", "only",
    "or", "other", "our", "ours", "ourselves", "out", "over", "own", "s", "same", "she",
    "should", "so", "some", "such", "than", "that", "the", "their", "theirs", "them",
    "themselves", "then", "there", "these", "they", "this", "those", "through", "to", "too",
    "under", "until", "up", "very", "was", "we", "were", "what", "when", "where", "which",
    "while", "who", "whom", "why", "will", "with", "would", "you", "your", "yours", "yourself",
    "yourselves", "hello", "hi", "hey", "thanks", "thank", "please", "yes", "yeah", "ok", "okay"}

\* isValidName without the look-up in the stoplist
isValidNameNoStoplist(name) ==
    IF name = "" \/ Len(trim(name)) < 2 THEN FALSE
    ELSE IF RunEnd(name, 0, Letters \cup SpaceChars) # Len(name) THEN FALSE
    ELSE IF name = toUpperCase(name) /\ Len(name) > 3 THEN FALSE
    ELSE TRUE

isValidName(name) ==
    IF name = "" \/ Len(trim(name)) < 2 THEN FALSE
    ELSE IF toLowerCase(trim(name)) \in COMMON_WORDS THEN FALSE
    ELSE IF RunEnd(name, 0, Letters \cup SpaceChars) # Len(name) THEN FALSE
    ELSE IF name = toUpperCase(name) /\ Len(name) > 3 THEN FALSE
    ELSE TRUE

\* normalizeGender comparing the term as it was written
normalizeGenderAsWritten(gender) ==
    LET genderLower == toLowerCase(gender)
    IN  IF gender \in {"male", "man", "guy", "boy", "gentleman"} THEN "male"
        ELSE IF gender \in {"female", "woman", "girl", "lady"} THEN "female"
        ELSE genderLower

normalizeGender(gender) ==
    LET genderLower == toLowerCase(gender)
    IN  IF genderLower \in {"male", "man", "guy", "boy", "gentleman"} THEN "male"
        ELSE IF genderLower \in {"female", "woman", "girl", "lady"} THEN "female"
        ELSE genderLower

\* extractGoalText cutting a goal of 100 characters too
extractGoalTextCutsAt100(matchText) ==
    LET goal0 == trim(matchText)
        goal1 == Slice(goal0, 0, RunStart(goal0, Len(goal0), {".", "!", "?"}))
        goal2 == IF Len(goal1) >= 100 THEN Slice(goal1, 0, 100) \o "..." ELSE goal1
    IN  trim(goal2)

\* extractGoalText without the limit on the length
extractGoalTextUncut(matchText) ==
    LET goal0 == trim(matchText)
        goal1 == Slice(goal0, 0, RunStart(goal0, Len(goal0), {".", "!", "?"}))
    IN  trim(goal1)

extractGoalText(matchText) ==
    LET goal0 == trim(matchText)
        goal1 == Slice(goal0, 0, RunStart(goal0, Len(goal0), {".", "!", "?"}))
        goal2 == IF Len(goal1) > 100 THEN Slice(goal1, 0, 100) \o "..." ELSE goal1
    IN  trim(goal2)

-----------------------------------------------------------------------------
(* recommend.ts: PIISanitizer.  The methods share the module-level pattern  *)
(* objects: each operator takes the cursors li (lastIndex of every pattern) *)
(* and gives back its return value, the cursors it leaves and whether it    *)
(* threw.                                                                   *)

ZeroIndex == [p \in PatternIds |-> 0]

Returned(v, li) == [value |-> v, li |-> li, threw |-> FALSE]

Thrown(li) == [value |-> JsUndefined, li |-> li, threw |-> TRUE]

\* while ((match = pattern.exec(text)) !== null) { ... }: the matches of the
\* successive calls, from a cursor at from until exec returns null
RECURSIVE ScanAll(_, _, _)
\* the loop after a call of exec gave r
ScanNext(p, t, r) ==
    IF r.match.index < 0 THEN <<>> ELSE <<r.match>> \o ScanAll(p, t, r.lastIndex)

ScanAll(p, t, from) == ScanNext(p, t, Exec(p, t, from))

\* for (const pattern of patterns) { pattern.lastIndex = 0; while (...) }:
\* the matches of all the patterns, pattern after pattern
RECURSIVE ScanPatterns(_, _, _, _)
ScanPatterns(ps, t, li, k) ==
    IF k > Len(ps) THEN <<>>
    ELSE LET reset == [li EXCEPT ![ps[k]] = 0]
         IN  ScanAll(ps[k], t, reset[ps[k]]) \o ScanPatterns(ps, t, li, k + 1)

\* the cursors after the loops above: the exec that ends a loop returns null
\* and leaves lastIndex at 0
AfterScan(ps, li) == [p \in PatternIds |-> IF p \in Range(ps) THEN 0 ELSE li[p]]

\* order-preserving removal of the elements xs[k] whose key keys[k] was seen
\* before (a Set of the keys, filled in iteration order)
RECURSIVE UniqueFrom(_, _, _, _)
UniqueFrom(xs, keys, seen, k) ==
    IF k > Len(xs) THEN <<>>
    ELSE IF keys[k] \in seen THEN UniqueFrom(xs, keys, seen, k + 1)
    ELSE <<xs[k]>> \o UniqueFrom(xs, keys, seen \cup {keys[k]}, k + 1)

\* [...new Set(xs)]
Unique(xs) == UniqueFrom(xs, xs, {}, 1)

\* the candidate of a name match that detectNames pushes: <<name.trim()>>, or
\* <<>> when the match is filtered out
NameOf(m) ==
    LET name == m.groups[1]
    IN  IF name # "" /\ isValidName(name)
           /\ ~\E phrase \in {"the ", "a ", "an "} : includes(toLowerCase(name), phrase)
        THEN <<trim(name)>> ELSE <<>>

RECURSIVE Flatten(_)
Flatten(xss) == IF xss = <<>> THEN <<>> ELSE Head(xss) \o Flatten(Tail(xss))

\* the names array of detectNames after its loops over the matches ms
NamesOf(ms) == Flatten([k \in 1..Len(ms) |-> NameOf(ms[k])])

\* the filter on seen with the names as written, not in lower case
UniqueNamesAsWritten(names) == UniqueFrom(names, names, {}, 1)

\* the filter on seen of detectNames: the first of the names that are equal
\* in lower case stays
UniqueNames(names) ==
    UniqueFrom(names, [k \in 1..Len(names) |-> toLowerCase(names[k])], {}, 1)

detectNames(text, li) ==
    Returned(UniqueNames(NamesOf(ScanPatterns(NamePatterns, text, li, 1))),
             AfterScan(NamePatterns, li))

\* the matches array of detectEmails with matches.unshift for matches.push:
\* the newest match first
EmailsOfNewestFirst(text, ms) ==
    [k \in 1..Len(ms) |-> Slice(text, ms[Len(ms) + 1 - k].index, ms[Len(ms) + 1 - k].end)]

\* the matches array of detectEmails after its loop over the matches ms: the
\* matched texts (match[0])
EmailsOf(text, ms) == [k \in 1..Len(ms) |-> Slice(text, ms[k].index, ms[k].end)]

\* detectEmails removing the duplicates up to case, as detectNames does
detectEmailsIgnoringCase(text, li) ==
    Returned(UniqueNames(EmailsOf(text, ScanPatterns(<<EmailPattern>>, text, li, 1))),
             AfterScan(<<EmailPattern>>, li))

detectEmails(text, li) ==
    Returned(Unique(EmailsOf(text, ScanPatterns(<<EmailPattern>>, text, li, 1))),
             AfterScan(<<EmailPattern>>, li))

\* gs.join('-')
RECURSIVE JoinDash(_)
JoinDash(gs) == IF Len(gs) = 1 THEN gs[1] ELSE gs[1] \o "-" \o JoinDash(Tail(gs))

\* the entry of a phone match with the groups joined by hyphens whatever
\* their number
PhoneOfJoined(text, m) ==
    IF Len(m.groups) + 1 > 1 THEN JoinDash(m.groups) ELSE Slice(text, m.index, m.end)

\* the entry of a phone match made of the groups alone: nothing for a match
\* without groups
PhoneOfGroupsOnly(text, m) ==
    IF Len(m.groups) + 1 = 4
    THEN "(" \o m.groups[1] \o ") " \o m.groups[2] \o "-" \o m.groups[3]
    ELSE IF m.groups = <<>> THEN "" ELSE JoinDash(m.groups)

\* the entry of a phone match: match.length is 1 + the number of groups
PhoneOf(text, m) ==
    IF Len(m.groups) + 1 > 1
    THEN IF Len(m.groups) + 1 = 4
         THEN "(" \o m.groups[1] \o ") " \o m.groups[2] \o "-" \o m.groups[3]
         ELSE JoinDash(m.groups)
    ELSE Slice(text, m.index, m.end)

\* the phones array of detectPhones after its loops over the matches ms
PhonesOf(text, ms) == [k \in 1..Len(ms) |-> PhoneOf(text, ms[k])]

detectPhones(text, li) ==
    Returned(Unique(PhonesOf(text, ScanPatterns(PhonePatterns, text, li, 1))),
             AfterScan(PhonePatterns, li))

RECURSIVE extractAgeFrom(_, _, _)
\* the body of the loop of extractAge for AGE_PATTERNS[k] without the range
\* check: the first match is the age
AgeOfMatchAnyAge(text, li, k, r) ==
    IF r.match.index >= 0
    THEN Returned(JsNum(parseInt(r.match.groups[1])), [li EXCEPT ![AgePatterns[k]] = r.lastIndex])
    ELSE extractAgeFrom(text, [li EXCEPT ![AgePatterns[k]] = r.lastIndex], k + 1)

\* the body of the loop returning null at a match out of the range, without
\* going on to the next pattern
AgeOfMatchGivesUp(text, li, k, r) ==
    LET age == parseInt(r.match.groups[1])
        left == [li EXCEPT ![AgePatterns[k]] = r.lastIndex]
    IN  IF r.match.index < 0 THEN extractAgeFrom(text, left, k + 1)
        ELSE IF age >= 13 /\ age <= 100 THEN Returned(JsNum(age), left)
        ELSE Returned(JsNull, left)

\* the body of the loop of extractAge for AGE_PATTERNS[k] after exec gave r
AgeOfMatch(text, li, k, r) ==
    LET age == parseInt(r.match.groups[1])
    IN  IF r.match.index >= 0 /\ age >= 13 /\ age <= 100
        THEN Returned(JsNum(age), [li EXCEPT ![AgePatterns[k]] = r.lastIndex])
        ELSE extractAgeFrom(text, [li EXCEPT ![AgePatterns[k]] = r.lastIndex], k + 1)

\* extractAge without pattern.lastIndex = 0: exec starts at the cursor that
\* the call before left
extractAgeFromStale(text, li, k) ==
    IF k > Len(AgePatterns) THEN Returned(JsNull, li)
    ELSE AgeOfMatch(text, li, k, Exec(AgePatterns[k], text, li[AgePatterns[k]]))

\* the loop of extractAge from AGE_PATTERNS[k] on: pattern.lastIndex = 0, then
\* exec
extractAgeFrom(text, li, k) ==
    IF k > Len(AgePatterns) THEN Returned(JsNull, li)
    ELSE AgeOfMatch(text, li, k, Exec(AgePatterns[k], text, 0))

extractAge(text, li) == extractAgeFrom(text, li, 1)

RECURSIVE extractGenderFrom(_, _, _)
\* the body of the loop of extractGender without if (match): match[1] of null
\* is a TypeError
GenderOfMatchUnguarded(text, li, k, r) ==
    IF r.match.index >= 0
    THEN Returned(JsStr(normalizeGender(r.match.groups[1])),
                  [li EXCEPT ![GenderPatterns[k]] = r.lastIndex])
    ELSE Thrown([li EXCEPT ![GenderPatterns[k]] = r.lastIndex])

\* the body of the loop returning the captured word in lower case, not
\* normalized
GenderOfMatchAsCaptured(text, li, k, r) ==
    IF r.match.index >= 0
    THEN Returned(JsStr(toLowerCase(r.match.groups[1])),
                  [li EXCEPT ![GenderPatterns[k]] = r.lastIndex])
    ELSE extractGenderFrom(text, [li EXCEPT ![GenderPatterns[k]] = r.lastIndex], k + 1)

\* the body of the loop of extractGender for GENDER_PATTERNS[k] after exec
\* gave r
GenderOfMatch(text, li, k, r) ==
    IF r.match.index >= 0
    THEN Returned(JsStr(normalizeGender(r.match.groups[1])),
                  [li EXCEPT ![GenderPatterns[k]] = r.lastIndex])
    ELSE extractGenderFrom(text, [li EXCEPT ![GenderPatterns[k]] = r.lastIndex], k + 1)

\* the loop of extractGender resetting and running every pattern before it
\* looks at the first match
extractGenderFromAll(text, li, k) ==
    LET after == [p \in PatternIds |->
                     IF p \in Range(GenderPatterns) THEN Exec(p, text, 0).lastIndex ELSE li[p]]
        found == {j \in k..Len(GenderPatterns) : Exec(GenderPatterns[j], text, 0).match.index >= 0}
    IN  IF found = {} THEN Returned(JsNull, after)
        ELSE Returned(JsStr(normalizeGender(
                 Exec(GenderPatterns[SetMin(found)], text, 0).match.groups[1])), after)

extractGenderFrom(text, li, k) ==
    IF k > Len(GenderPatterns) THEN Returned(JsNull, li)
    ELSE GenderOfMatch(text, li, k, Exec(GenderPatterns[k], text, 0))

extractGender(text, li) == extractGenderFrom(text, li, 1)

RECURSIVE extractGoalFrom(_, _, _)
\* the body of the loop of extractGoal for GOAL_PATTERNS[k] after exec gave r
GoalOfMatch(text, li, k, r) ==
    LET cleanedGoal == extractGoalText(r.match.groups[1])
    IN  IF r.match.index >= 0 /\ cleanedGoal # "" /\ Len(cleanedGoal) > 3
        THEN Returned(JsStr(cleanedGoal), [li EXCEPT ![GoalPatterns[k]] = r.lastIndex])
        ELSE extractGoalFrom(text, [li EXCEPT ![GoalPatterns[k]] = r.lastIndex], k + 1)

extractGoalFrom(text, li, k) ==
    IF k > Len(GoalPatterns) THEN Returned(JsNull, li)
    ELSE GoalOfMatch(text, li, k, Exec(GoalPatterns[k], text, 0))

extractGoal(text, li) == extractGoalFrom(text, li, 1)

\* text.replace(new RegExp(`\\b${escaped name}\\b`, 'gi'), '[NAME]'): every
\* whole-word, case-insensitive occurrence, scanned from left to right
RECURSIVE replaceName(_, _, _)
replaceName(s, name, i) ==
    LET is == {j \in i..Len(s) : /\ IsBoundary(s, j)
                                 /\ LitCI(s, j, toLowerCase(name))
                                 /\ IsBoundary(s, j + Len(name))}
    IN  IF is = {} THEN Slice(s, i, Len(s))
        ELSE Slice(s, i, SetMin(is)) \o "[NAME]"
                \o replaceName(s, name, SetMin(is) + Len(name))

\* s.replace(/\s+/g, ' '): the first character of a run of white space
\* becomes a space, the others go
collapseSpaces(s) ==
    Concat([k \in 1..Len(s) |->
              IF At(s, k - 1) \notin SpaceChars THEN At(s, k - 1)
              ELSE IF At(s, k - 2) \in SpaceChars THEN "" ELSE " "], 1, Len(s))

\* for (const name of names) s = s.replace(pattern of name, '[NAME]')
RECURSIVE replaceNames(_, _)
replaceNames(s, names) ==
    IF names = <<>> THEN s ELSE replaceNames(replaceName(s, Head(names), 0), Tail(names))

\* for (const item of items) s = s.replace(item, token)
RECURSIVE replaceEach(_, _, _)
replaceEach(s, items, token) ==
    IF items = <<>> THEN s ELSE replaceEach(replace(s, Head(items), token), Tail(items), token)

\* removePII without the trim at its end
removePIIUntrimmed(text, detectedPII) ==
    LET s1 == replaceNames(text, detectedPII.names)
        s2 == replaceEach(s1, detectedPII.emails, "[EMAIL]")
        s3 == replaceEach(s2, detectedPII.phones, "[PHONE]")
    IN  collapseSpaces(s3)

removePII(text, detectedPII) ==
    LET s1 == replaceNames(text, detectedPII.names)
        s2 == replaceEach(s1, detectedPII.emails, "[EMAIL]")
        s3 == replaceEach(s2, detectedPII.phones, "[PHONE]")
    IN  trim(collapseSpaces(s3))

NoContext == [age |-> JsNull, gender |-> JsNull, goal |-> JsNull]

NoPII == [names |-> <<>>, emails |-> <<>>, phones |-> <<>>]

\* the calls of analyzeText, in program order
AnalysisMethods ==
    <<"detectNames", "detectEmails", "detectPhones", "extractAge", "extractGender", "extractGoal">>

\* the outcome of this.method(text) made with the cursors li
Call(method, text, li) ==
    CASE method = "detectNames" -> detectNames(text, li)
      [] method = "detectEmails" -> detectEmails(text, li)
      [] method = "detectPhones" -> detectPhones(text, li)
      [] method = "extractAge" -> extractAge(text, li)
      [] method = "extractGender" -> extractGender(text, li)
      [] method = "extractGoal" -> extractGoal(text, li)

RECURSIVE AnalysisCalls(_, _, _)
\* the calls of analyzeText from the k-th on, the k-th having given r: the
\* values they returned, the cursors they leave, and whether one threw, which
\* ends analyzeText
AnalysisCallsAfter(text, k, r) ==
    IF r.threw THEN [value |-> <<>>, li |-> r.li, threw |-> TRUE]
    ELSE [AnalysisCalls(text, r.li, k + 1) EXCEPT !.value = <<r.value>> \o @]

\* the calls of analyzeText from the k-th on, each starting with the cursors
\* the call before left
AnalysisCalls(text, li, k) ==
    IF k > Len(AnalysisMethods) THEN Returned(<<>>, li)
    ELSE AnalysisCallsAfter(text, k, Call(AnalysisMethods[k], text, li))

\* what analyzeText makes of the outcome rs of its calls
AnalysisOf(text, rs) ==
    LET detectedPII == [names |-> rs.value[1], emails |-> rs.value[2], phones |-> rs.value[3]]
        extractedContext == [age |-> rs.value[4], gender |-> rs.value[5], goal |-> rs.value[6]]
    IN  IF rs.threw THEN Thrown(rs.li)
        ELSE Returned([sanitizedText |-> removePII(text, detectedPII),
                       detectedPII |-> detectedPII,
                       extractedContext |-> extractedContext], rs.li)

analyzeText(text, li) == AnalysisOf(text, AnalysisCalls(text, li, 1))

-----------------------------------------------------------------------------
(* builder.ts: PromptBuilder *)

\* the templates with nothing for the fallback
contextTemplatesEmptyFallback == [
    full |-> "Suggest tools for a {age}-year-old {gender} {goal}.",
    age_gender |-> "Suggest tools for a {age}-year-old {gender}.",
    age_goal |-> "Suggest tools for someone {goal} (age {age}).",
    gender_goal |-> "Suggest tools for a {gender} {goal}.",
    age_only |-> "Suggest tools for a {age}-year-old.",
    gender_only |-> "Suggest tools for a {gender}.",
    goal_only |-> "Suggest tools for {goal}.",
    fallback |-> ""]

contextTemplates == [
    full |-> "Suggest tools for a {age}-year-old {gender} {goal}.",
    age_gender |-> "Suggest tools for a {age}-year-old {gender}.",
    age_goal |-> "Suggest tools for someone {goal} (age {age}).",
    gender_goal |-> "Suggest tools for a {gender} {goal}.",
    age_only |-> "Suggest tools for a {age}-year-old.",
    gender_only |-> "Suggest tools for a {gender}.",
    goal_only |-> "Suggest tools for {goal}.",
    fallback |-> "Suggest relevant tools and services."]

\* Object.keys(this.goalPrefixes)
goalPrefixes == {"building", "creating", "developing", "making", "working on", "starting", "launching"}

\* the prefix rules without the rule of the product words
PrefixedGoalWorkingOnOnly(normalizedGoal) ==
    IF \E prefix \in goalPrefixes : startsWith(normalizedGoal, prefix) THEN normalizedGoal
    ELSE "working on " \o normalizedGoal

\* normalizeGoal once the goal is trimmed and in lower case
PrefixedGoal(normalizedGoal) ==
    IF \E prefix \in goalPrefixes : startsWith(normalizedGoal, prefix) THEN normalizedGoal
    ELSE IF \E article \in {"a ", "an ", "the "} : startsWith(normalizedGoal, article)
    THEN "working on " \o normalizedGoal
    ELSE IF \E word \in {"app", "website", "business", "startup", "tool", "platform"} :
                startsWith(normalizedGoal, word)
    THEN "building " \o normalizedGoal
    ELSE "working on " \o normalizedGoal

normalizeGoal(goal) == IF goal = "" THEN "" ELSE PrefixedGoal(toLowerCase(trim(goal)))

\* age, gender and goal are JavaScript values (a number, a string, or null)
selectTemplate(age, gender, goal) ==
    LET hasAge == age # JsNull
        hasGender == gender # JsNull
        hasGoal == goal # JsNull /\ Len(trim(goal.str)) > 0
    IN  IF hasAge /\ hasGender /\ hasGoal THEN "full"
        ELSE IF hasAge /\ hasGender THEN "age_gender"
        ELSE IF hasAge /\ hasGoal THEN "age_goal"
        ELSE IF hasGender /\ hasGoal THEN "gender_goal"
        ELSE IF hasAge THEN "age_only"
        ELSE IF hasGender THEN "gender_only"
        ELSE IF hasGoal THEN "goal_only"
        ELSE "fallback"

\* the switch of buildPrompt.  Its try block does not throw for a context of
\* the declared type (age a number or null, gender and goal a string or null),
\* so its catch is not taken.
FillTemplate(templateKey, age, gender, normalizedGoal) ==
    CASE templateKey = "full" ->
            replace(replace(replace(contextTemplates[templateKey], "{age}", toString(age.num)),
                            "{gender}", gender.str),
                    "{goal}", normalizedGoal.str)
      [] templateKey = "age_gender" ->
            replace(replace(contextTemplates[templateKey], "{age}", toString(age.num)),
                    "{gender}", gender.str)
      [] templateKey = "age_goal" ->
            replace(replace(contextTemplates[templateKey], "{age}", toString(age.num)),
                    "{goal}", normalizedGoal.str)
      [] templateKey = "gender_goal" ->
            replace(replace(contextTemplates[templateKey], "{gender}", gender.str),
                    "{goal}", normalizedGoal.str)
      [] templateKey = "age_only" ->
            replace(contextTemplates[templateKey], "{age}", toString(age.num))
      [] templateKey = "gender_only" ->
            replace(contextTemplates[templateKey], "{gender}", gender.str)
      [] templateKey = "goal_only" ->
            replace(contextTemplates[templateKey], "{goal}", normalizedGoal.str)
      [] OTHER -> contextTemplates[templateKey]

\* buildPrompt once the goal is normalized
BuildWithGoal(age, gender, normalizedGoal) ==
    FillTemplate(selectTemplate(age, gender, normalizedGoal), age, gender, normalizedGoal)

buildPrompt(extractedContext) ==
    BuildWithGoal(extractedContext.age, extractedContext.gender,
                  IF Truthy(extractedContext.goal)
                  THEN JsStr(normalizeGoal(extractedContext.goal.str)) ELSE JsNull)

\* cleanedText.split(/\s+/).length for a trimmed, non-empty text: the number
\* of its words
WordStarts(s) == {i \in 0..(Len(s) - 1) : At(s, i) \notin SpaceChars /\ (i = 0 \/ At(s, i - 1) \in SpaceChars)}

\* enhanceWithSanitizedText whose last branch adds the text to the prompt
enhanceWithSanitizedTextAdded(basePrompt, sanitizedText) ==
    LET cleanedText == trim(sanitizedText)
        placeholderTokens == {"[NAME]", "[EMAIL]", "[PHONE]"}
        words == WordStarts(cleanedText)
        word(i) == Slice(cleanedText, i, RunEndNot(cleanedText, i, SpaceChars))
        placeholderCount ==
            Cardinality({i \in words : \E token \in placeholderTokens : includes(word(i), token)})
    IN  IF sanitizedText = "" \/ trim(sanitizedText) \in ({""} \cup placeholderTokens)
        THEN basePrompt
        ELSE IF Cardinality(words) > 0 /\ 2 * placeholderCount > Cardinality(words)
        THEN basePrompt
        ELSE IF Len(cleanedText) <= 20
                \/ \E prefix \in {"Suggest", "I need", "Looking for", "Hi,", "Hello,"} :
                        startsWith(cleanedText, prefix)
        THEN basePrompt
        ELSE basePrompt \o " Context: " \o cleanedText

\* every branch returns the base prompt
enhanceWithSanitizedText(basePrompt, sanitizedText) ==
    LET cleanedText == trim(sanitizedText)
        placeholderTokens == {"[NAME]", "[EMAIL]", "[PHONE]"}
        words == WordStarts(cleanedText)
        word(i) == Slice(cleanedText, i, RunEndNot(cleanedText, i, SpaceChars))
        placeholderCount ==
            Cardinality({i \in words : \E token \in placeholderTokens : includes(word(i), token)})
    IN  IF sanitizedText = "" \/ trim(sanitizedText) \in ({""} \cup placeholderTokens)
        THEN basePrompt
        ELSE IF Cardinality(words) > 0 /\ 2 * placeholderCount > Cardinality(words)
        THEN basePrompt
        ELSE IF Len(cleanedText) <= 20
                \/ \E prefix \in {"Suggest", "I need", "Looking for", "Hi,", "Hello,"} :
                        startsWith(cleanedText, prefix)
        THEN basePrompt
        ELSE basePrompt

buildCompletePrompt(sanitizedText, extractedContext) ==
    enhanceWithSanitizedText(buildPrompt(extractedContext), sanitizedText)

\* formatRemovedPII taking the last element of each list
formatRemovedPIILast(detectedPII) ==
    LET last(xs) == IF Len(xs) > 0 THEN JsStr(xs[Len(xs)]) ELSE JsNull
    IN  [name |-> last(detectedPII.names),
         email |-> last(detectedPII.emails),
         phone |-> last(detectedPII.phones)]

formatRemovedPII(detectedPII) ==
    [name |-> IF Len(detectedPII.names) > 0 THEN JsStr(detectedPII.names[1]) ELSE JsNull,
     email |-> IF Len(detectedPII.emails) > 0 THEN JsStr(detectedPII.emails[1]) ELSE JsNull,
     phone |-> IF Len(detectedPII.phones) > 0 THEN JsStr(detectedPII.phones[1]) ELSE JsNull]

-----------------------------------------------------------------------------
(* builder.ts: sanitizeAndBuild *)

\* the value of analysisResult when analyzeText was not called
NotRun == [ran |-> FALSE, sanitizedText |-> "", detectedPII |-> NoPII, extractedContext |-> NoContext]

Ran(a) == [ran |-> TRUE, sanitizedText |-> a.sanitizedText, detectedPII |-> a.detectedPII,
           extractedContext |-> a.extractedContext]

FallbackResult ==
    [prompt |-> "Suggest relevant tools and services.",
     removed |-> [name |-> JsNull, email |-> JsNull, phone |-> JsNull],
     extracted_context |-> [age |-> JsNull, gender |-> JsNull, goal |-> JsNull]]

\* the guard without its first half: typeof userInput !== 'string' alone
InvalidInputByTypeOnly(userInput) == typeof(userInput) # "string"

\* the guard of sanitizeAndBuild: !userInput || typeof userInput !== 'string'
InvalidInput(userInput) == ~Truthy(userInput) \/ typeof(userInput) # "string"

\* sanitizeAndBuild after sanitizer.analyzeText(userInput) gave analysisResult
BuildResult(analysisResult) ==
    IF analysisResult.threw
    THEN [value |-> JsUndefined, li |-> analysisResult.li, threw |-> TRUE, analysis |-> NotRun]
    ELSE [value |-> [prompt |-> buildCompletePrompt(analysisResult.value.sanitizedText,
                                                    analysisResult.value.extractedContext),
                     removed |-> formatRemovedPII(analysisResult.value.detectedPII),
                     extracted_context |-> analysisResult.value.extractedContext],
          li |-> analysisResult.li, threw |-> FALSE, analysis |-> Ran(analysisResult.value)]

\* userInput is any JavaScript value; analysis is the analysisResult of the call
sanitizeAndBuild(userInput, li) ==
    IF InvalidInput(userInput)
    THEN [value |-> FallbackResult, li |-> li, threw |-> FALSE, analysis |-> NotRun]
    ELSE BuildResult(analyzeText(userInput.str, li))

-----------------------------------------------------------------------------
(* Inputs *)

\* the most fragments a text is made of
MaxFrags == 2

\* pieces of user text: introductions, contact details, age, gender and goal
\* phrases, in the shapes the patterns look for and in shapes near them
Frags == {
    "I'm Ann. ",
    "Hi, I am Ann Lee, ",
    "a@b.co ",
    "x.y@b.co, ",
    "555-123-4567 ",
    "(555) 123-4567. ",
    "I'm 5 ",
    "27 years old ",
    "I'm a woman ",
    "making $$ for Ann. ",
    "app for   kids? "}

RECURSIVE TextsOf(_)
TextsOf(n) == IF n = 0 THEN {""} ELSE {""} \cup {f \o t : f \in Frags, t \in TextsOf(n - 1)}

\* the texts of at most MaxFrags fragments
Texts == TextsOf(MaxFrags)

\* values that are not strings
NonStrings == {JsUndefined, JsNull, JsNum(0), JsNum(42), JsBool(FALSE), JsBool(TRUE), JsObject}

\* the arguments of sanitizeAndBuild
Inputs == {JsStr(t) : t \in Texts} \cup NonStrings

\* the texts of the calls that follow one another in one process
SeqTexts == {
    "27 years old ",
    "I'm 5 27 years old ",
    "I'm a woman making $$ for Ann. ",
    "Hi, I am Ann Lee, a@b.co 555-123-4567 ",
    "app for   kids? "}

\* the arguments of the calls of sanitizeAndBuild that follow one another
SeqInputs == {JsStr(t) : t \in SeqTexts} \cup {JsStr(""), JsNull}

\* the contexts of buildPrompt
Contexts ==
    [age : {JsNull, JsNum(0), JsNum(27)},
     gender : {JsNull, JsStr("female"), JsStr("they")},
     goal : {JsNull, JsStr(""), JsStr("  "), JsStr("App"), JsStr(" an idea "),
             JsStr("making $$"), JsStr("Building a tool")}]

\* the arguments of the calls of the helper functions and more texts for the
\* methods: names for isValidName, goals for normalizeGoal, genders for
\* normalizeGender, matched texts for extractGoalText, texts with short and
\* long goals for extractGoal, texts with names in other shapes for
\* detectNames, texts with gender words for extractGender, texts with emails and phone numbers in other shapes and more
\* than once for detectEmails, detectPhones and analyzeText, and sanitized texts
\* for buildCompletePrompt
Samples == [
    names |-> {
        "John", "John Smith", "the", "A", "123", "ACRONYM", "", " ", " A ", "Jo", "ABC",
        "ABCD", "AB  ", "THE", " Hello ", "John3", "Ann-Lee", "John\tSmith", "Okay",
        "ann lee", " me", "JO A"},
    goals |-> {
        "", "  ", "mobile app", "building a website", "working on a project", "a startup",
        "An idea", "the plan", " App store ", "apple pie", "website", "toolbox", "Making $$",
        "makingx", "LAUNCHING soon", "a", "an", "startup", "business plan", "platform",
        "learn to code", "tools"},
    genders |-> {
        "male", "man", "guy", "boy", "gentleman", "female", "woman", "girl", "lady", "Male",
        "MAN", "Lady", "GentleMan", "they", "Non-Binary", " male ", "", "men"},
    matchTexts |-> {
        "building a mobile app.", "creating a website!!!", "  goal  ", "goal !", "goal. ",
        "?!.", "", "wait... what", " x.y ", "abc",
        Concat([k \in 1..150 |-> "a"], 1, 150),
        Concat([k \in 1..100 |-> "a"], 1, 100),
        Concat([k \in 1..101 |-> "a"], 1, 101),
        Concat([k \in 1..101 |-> "a"], 1, 101) \o "!!",
        " " \o Concat([k \in 1..25 |-> "abc "], 1, 25) \o "d. "},
    goalTexts |-> {
        "tool for me. ", "app about it!", "project that is.", "app for kids",
        "platform for them ", "I want to go. ", "tool for me, creating art",
        "building " \o Concat([k \in 1..23 |-> "abcd "], 1, 23)},
    nameTexts |-> {
        "call me ann ", "this is Bob here! I'm Ann. ", "I'm Ann. call me ann ",
        "I'm building a tool", "my name is JOHN", "my name is Al", "Hi, I am the boss",
        "I'm An Expert", "hello I'm Bob", "I'm Ann Lee and I'm ann lee",
        "I'm Bob, this is Bob Ray here"},
    emailTexts |-> {
        "a@b.co A@b.co a@b.co", "x.y@b.co, a@b.co x.y@b.co ", "mail a@b.c or a@b.co.uk.",
        "I'm Ann. \t a@b.co \n\n 555-123-4567  ", "I'm Ann, a@b.co, 555-123-4567 or +7 900"},
    phoneTexts |-> {
        "+1-555-123-4567", "+1 (555) 123 4567 ", "call +44 2079460958 now",
        "555 123 4567", "555.123.4567 or 555-123-4567", "+1 555 123 4567",
        "555 123 4567 (555) 123-4567 555-123-9999", "+44-20 and +44-20, +12",
        "  555-123-4567 \t and\n\n+7 900  "},
    genderTexts |-> {
        "He is a GentleMan", "lady Boy", "Male or female?", "I am a Guy", "the girls",
        "a human being", "I'm a  GIRL!", "woman's work", "no-man land", "manly"},
    sanitizedTexts |-> {
        "", "[NAME]", " [EMAIL] ", "[NAME] [EMAIL] hi", "short text",
        "Suggest me something really good please",
        "I want a really good tool for my project",
        "Hi there [NAME] wants a good tool for work"}]

-----------------------------------------------------------------------------
(* The state: the cursors of the shared patterns and the last call *)

VARIABLES
    lastIndex,   \* lastIndex of every module-level pattern object
    op,          \* the function or method called last ("none" before any call)
    arg,         \* its argument
    ret,         \* the value it returned
    threw,       \* whether it threw instead
    analysis     \* the analysisResult of that call (NotRun when it made none)

vars == <<lastIndex, op, arg, ret, threw, analysis>>

Init ==
    /\ lastIndex = ZeroIndex
    /\ op = "none"
    /\ arg = JsUndefined
    /\ ret = JsUndefined
    /\ threw = FALSE
    /\ analysis = NotRun

\* a call of a PIISanitizer method, which makes no analysisResult; rs holds the
\* outcome of the call
Method(name, text, rs) ==
    \E r \in rs :
        /\ op' = name
        /\ arg' = JsStr(text)
        /\ ret' = r.value
        /\ threw' = r.threw
        /\ lastIndex' = r.li
        /\ analysis' = NotRun

SanitizeAndBuild(userInput) ==
    \E r \in {sanitizeAndBuild(userInput, lastIndex)} :
        /\ op' = "sanitizeAndBuild"
        /\ arg' = userInput
        /\ ret' = r.value
        /\ threw' = r.threw
        /\ lastIndex' = r.li
        /\ analysis' = r.analysis

AnalyzeText(text) ==
    \E r \in {analyzeText(text, lastIndex)} :
        /\ op' = "analyzeText"
        /\ arg' = JsStr(text)
        /\ ret' = r.value
        /\ threw' = r.threw
        /\ lastIndex' = r.li
        /\ analysis' = IF r.threw THEN NotRun ELSE Ran(r.value)

DetectNames(text) == Method("detectNames", text, {detectNames(text, lastIndex)})

DetectEmails(text) == Method("detectEmails", text, {detectEmails(text, lastIndex)})

DetectPhones(text) == Method("detectPhones", text, {detectPhones(text, lastIndex)})

ExtractAge(text) == Method("extractAge", text, {extractAge(text, lastIndex)})

ExtractGender(text) == Method("extractGender", text, {extractGender(text, lastIndex)})

ExtractGoal(text) == Method("extractGoal", text, {extractGoal(text, lastIndex)})

BuildPrompt(extractedContext) ==
    /\ op' = "buildPrompt"
    /\ arg' = extractedContext
    /\ ret' = buildPrompt(extractedContext)
    /\ threw' = FALSE
    /\ analysis' = NotRun
    /\ UNCHANGED lastIndex

\* a call of a function that uses no pattern object and does not throw
Pure(name, a, v) ==
    /\ op' = name
    /\ arg' = a
    /\ ret' = v
    /\ threw' = FALSE
    /\ analysis' = NotRun
    /\ UNCHANGED lastIndex

IsValidName(name) == Pure("isValidName", JsStr(name), isValidName(name))

NormalizeGender(gender) == Pure("normalizeGender", JsStr(gender), normalizeGender(gender))

ExtractGoalText(matchText) == Pure("extractGoalText", JsStr(matchText), extractGoalText(matchText))

NormalizeGoal(goal) == Pure("normalizeGoal", JsStr(goal), normalizeGoal(goal))

BuildCompletePrompt(sanitizedText, extractedContext) ==
    Pure("buildCompletePrompt",
         [sanitizedText |-> sanitizedText, extractedContext |-> extractedContext],
         buildCompletePrompt(sanitizedText, extractedContext))

\* the first call of a process, on any input
Next ==
    \/ \E userInput \in Inputs \cup {JsStr(text) : text \in Samples.goalTexts
                                                             \cup Samples.genderTexts} :
            op = "none" /\ SanitizeAndBuild(userInput)
    \/ \E text \in Texts \cup Samples.emailTexts \cup Samples.phoneTexts :
            op = "none" /\ AnalyzeText(text)
    \/ \E text \in Texts \cup Samples.nameTexts : op = "none" /\ DetectNames(text)
    \/ \E text \in Texts \cup Samples.emailTexts : op = "none" /\ DetectEmails(text)
    \/ \E text \in Texts \cup Samples.phoneTexts : op = "none" /\ DetectPhones(text)
    \/ \E text \in Texts : op = "none" /\ ExtractAge(text)
    \/ \E text \in Texts \cup Samples.genderTexts : op = "none" /\ ExtractGender(text)
    \/ \E text \in Texts \cup Samples.goalTexts : op = "none" /\ ExtractGoal(text)
    \/ \E extractedContext \in Contexts : op = "none" /\ BuildPrompt(extractedContext)
    \/ \E name \in Samples.names : op = "none" /\ IsValidName(name)
    \/ \E gender \in Samples.genders : op = "none" /\ NormalizeGender(gender)
    \/ \E matchText \in Samples.matchTexts : op = "none" /\ ExtractGoalText(matchText)
    \/ \E goal \in Samples.goals : op = "none" /\ NormalizeGoal(goal)
    \/ \E sanitizedText \in Samples.sanitizedTexts, extractedContext \in Contexts :
            op = "none" /\ BuildCompletePrompt(sanitizedText, extractedContext)

Spec == Init /\ [][Next]_vars

\* any sequence of calls in one process, all on the same pattern objects
NextSeq ==
    \/ \E userInput \in SeqInputs : SanitizeAndBuild(userInput)
    \/ \E text \in SeqTexts : AnalyzeText(text)
    \/ \E text \in SeqTexts : DetectNames(text)
    \/ \E text \in SeqTexts : DetectEmails(text)
    \/ \E text \in SeqTexts : DetectPhones(text)
    \/ \E text \in SeqTexts : ExtractAge(text)
    \/ \E text \in SeqTexts : ExtractGender(text)
    \/ \E text \in SeqTexts : ExtractGoal(text)

SpecSeq == Init /\ [][NextSeq]_vars

-----------------------------------------------------------------------------
(* The scan loop of detectNames, detectEmails and detectPhones, one iteration
   a step:  pattern.lastIndex = 0;
            while ((match = pattern.exec(text)) !== null) { ... }
   arg is the text and the pattern of the loop, with what pattern.exec(text)
   gives at each value of the cursor; ret is the matches so far; op is
   "scanning" until exec returns null *)

\* before the first exec: the cursor of the pattern is 0
InitScan ==
    /\ lastIndex = ZeroIndex
    /\ op = "scanning"
    /\ arg \in {[text |-> text, pattern |-> pattern,
                 exec |-> [li \in 0..Len(text) |-> Exec(pattern, text, li)]] :
                    text \in SeqTexts \cup Samples.nameTexts \cup Samples.emailTexts
                                 \cup Samples.phoneTexts,
                    pattern \in Range(NamePatterns) \cup {EmailPattern}
                                    \cup Range(PhonePatterns)}
    /\ ret = <<>>
    /\ threw = FALSE
    /\ analysis = NotRun

\* one iteration with a pattern without the g flag: exec starts at 0 every
\* time
ScanStepFromStart ==
    /\ op = "scanning"
    /\ \E r \in {arg.exec[0]} :
          /\ lastIndex' = [lastIndex EXCEPT ![arg.pattern] = r.lastIndex]
          /\ \/ r.match.index >= 0 /\ ret' = Append(ret, r.match) /\ op' = op
             \/ r.match.index < 0 /\ ret' = ret /\ op' = "scanned"
    /\ UNCHANGED <<arg, threw, analysis>>

\* one evaluation of the condition of the loop, and the body if exec gave a
\* match
ScanStep ==
    /\ op = "scanning"
    /\ \E r \in {arg.exec[lastIndex[arg.pattern]]} :
          /\ lastIndex' = [lastIndex EXCEPT ![arg.pattern] = r.lastIndex]
          /\ \/ r.match.index >= 0 /\ ret' = Append(ret, r.match) /\ op' = op
             \/ r.match.index < 0 /\ ret' = ret /\ op' = "scanned"
    /\ UNCHANGED <<arg, threw, analysis>>

\* the loop runs on while it can: the call is synchronous and nothing else
\* runs in between
SpecScan == InitScan /\ [][ScanStep]_vars /\ WF_vars(ScanStep)

-----------------------------------------------------------------------------
(* Properties *)

\* sanitizeAndBuild returned from a call on a string that went through the
\* analysis
Analysed == op = "sanitizeAndBuild" /\ ~threw /\ analysis.ran

\* the detected values of every category
DetectedValues(detectedPII) ==
    Range(detectedPII.names) \cup Range(detectedPII.emails) \cup Range(detectedPII.phones)

\* C1: the prompt that sanitizeAndBuild returns contains none of the names,
\* emails and phone numbers detected in its input, compared without regard to
\* case, also when the detected value lies inside the goal
C1_PromptHoldsNoPII ==
    Analysed =>
        \A pii \in DetectedValues(analysis.detectedPII) :
            ~includes(toLowerCase(ret.prompt), toLowerCase(pii))

\* "I'm Ann. making $$ for Ann. ": Ann is detected as a name and removed, and
\* the prompt, built from the goal, holds "ann"
C1_Witness ==
    /\ Analysed
    /\ arg = JsStr("I'm Ann. making $$ for Ann. ")
    /\ ret.removed.name = JsStr("Ann")
    /\ ret.extracted_context.goal = JsStr("making $$ for Ann")
    /\ ret.prompt = "Suggest tools for making $ for ann."

\* C2: detection on the sanitized text of analyzeText finds no name, no email
\* and no phone number
C2_RedactionIdempotent ==
    (op = "analyzeText" /\ ~threw) =>
        /\ detectNames(ret.sanitizedText, ZeroIndex).value = <<>>
        /\ detectEmails(ret.sanitizedText, ZeroIndex).value = <<>>
        /\ detectPhones(ret.sanitizedText, ZeroIndex).value = <<>>

\* "555-123-4567 ": the phone is detected as "(555) 123-4567", which is not
\* in the text, so the sanitized text still holds the number
C2_Witness ==
    /\ op = "analyzeText"
    /\ ~threw
    /\ arg = JsStr("555-123-4567 ")
    /\ ret.detectedPII.phones = <<"(555) 123-4567">>
    /\ ret.sanitizedText = "555-123-4567"
    /\ detectPhones(ret.sanitizedText, ZeroIndex).value = <<"(555) 123-4567">>

\* the prompt of the template table for a context: age and gender are present
\* when not null, the goal when not null and not empty after trimming; each
\* placeholder stands for the age, the gender and the normalized goal
TablePrompt(c) ==
    LET hasAge == c.age # JsNull
        hasGender == c.gender # JsNull
        hasGoal == c.goal # JsNull /\ trim(c.goal.str) # ""
        age == toString(c.age.num)
        gender == c.gender.str
        goal == normalizeGoal(c.goal.str)
    IN  IF hasAge /\ hasGender /\ hasGoal
        THEN "Suggest tools for a " \o age \o "-year-old " \o gender \o " " \o goal \o "."
        ELSE IF hasAge /\ hasGender
        THEN "Suggest tools for a " \o age \o "-year-old " \o gender \o "."
        ELSE IF hasAge /\ hasGoal
        THEN "Suggest tools for someone " \o goal \o " (age " \o age \o ")."
        ELSE IF hasGender /\ hasGoal
        THEN "Suggest tools for a " \o gender \o " " \o goal \o "."
        ELSE IF hasAge THEN "Suggest tools for a " \o age \o "-year-old."
        ELSE IF hasGender THEN "Suggest tools for a " \o gender \o "."
        ELSE IF hasGoal THEN "Suggest tools for " \o goal \o "."
        ELSE "Suggest relevant tools and services."

\* C3: buildPrompt returns the prompt of the template table for the presence
\* of age, gender and goal, with each placeholder replaced by the age, the
\* gender and the normalized goal
C3_TemplateTable == op = "buildPrompt" => ret = TablePrompt(arg)

\* the goal "making $$" alone: the prompt has one dollar sign
C3_Witness ==
    /\ op = "buildPrompt"
    /\ arg = [age |-> JsNull, gender |-> JsNull, goal |-> JsStr("making $$")]
    /\ ret = "Suggest tools for making $."

\* C4: sanitizeAndBuild on a missing, empty or non-string input does not
\* throw, does not run the analysis, leaves the patterns alone and returns
\* the fallback result
C4_InvalidInputFallback ==
    (op = "sanitizeAndBuild" /\ (typeof(arg) # "string" \/ arg = JsStr(""))) =>
        /\ ~threw
        /\ ~analysis.ran
        /\ lastIndex = ZeroIndex
        /\ ret = [prompt |-> "Suggest relevant tools and services.",
                  removed |-> [name |-> JsNull, email |-> JsNull, phone |-> JsNull],
                  extracted_context |-> [age |-> JsNull, gender |-> JsNull, goal |-> JsNull]]

\* the empty string was given and the fallback came back
C4_Witness ==
    /\ op = "sanitizeAndBuild"
    /\ arg = JsStr("")
    /\ ~threw
    /\ ret.prompt = "Suggest relevant tools and services."

\* the outcome of the call name(a) made first in a fresh process
FreshCall(name, a) ==
    CASE name = "sanitizeAndBuild" -> sanitizeAndBuild(a, ZeroIndex)
      [] name = "analyzeText" -> analyzeText(a.str, ZeroIndex)
      [] name = "detectNames" -> detectNames(a.str, ZeroIndex)
      [] name = "detectEmails" -> detectEmails(a.str, ZeroIndex)
      [] name = "detectPhones" -> detectPhones(a.str, ZeroIndex)
      [] name = "extractAge" -> extractAge(a.str, ZeroIndex)
      [] name = "extractGender" -> extractGender(a.str, ZeroIndex)
      [] name = "extractGoal" -> extractGoal(a.str, ZeroIndex)
      [] name = "buildPrompt" -> Returned(buildPrompt(a), ZeroIndex)

\* C5: after any sequence of calls on the shared patterns, a call returns what
\* the same call returns when it is the first of a fresh process
C5_Deterministic ==
    op # "none" =>
        \E fresh \in {FreshCall(op, arg)} : threw = fresh.threw /\ ret = fresh.value

\* extractAge found its age although a call on a longer text had left a
\* cursor beyond the end of this text
C5_Witness ==
    /\ op = "extractAge"
    /\ ~threw
    /\ ret = JsNum(27)
    /\ \E p \in PatternIds : lastIndex[p] > Len(arg.str)

AgeInRange(age) == age = JsNull \/ (age.type = "number" /\ age.num \in 13..100)

\* C6: the age that sanitizeAndBuild and extractAge return is null or an
\* integer from 13 to 100
C6_AgeInRange ==
    /\ (op = "sanitizeAndBuild" /\ ~threw) => AgeInRange(ret.extracted_context.age)
    /\ (op = "extractAge" /\ ~threw) => AgeInRange(ret)

\* the text says "I'm 5" and the age returned is the 27 of a later rule
C6_Witness ==
    /\ Analysed
    /\ includes(arg.str, "I'm 5 ")
    /\ ret.extracted_context.age = JsNum(27)

\* C7: the prompt of the result of sanitizeAndBuild is a string that is not
\* empty, for a string input and for any other input
C7_PromptNotEmpty ==
    op = "sanitizeAndBuild" => ~threw /\ Len(ret.prompt) > 0

\* a text without age, gender and goal went through the analysis and the
\* prompt is there
C7_Witness ==
    /\ Analysed
    /\ analysis.extractedContext = NoContext
    /\ analysis.detectedPII.emails # <<>>
    /\ Len(ret.prompt) > 0

\* the first element of a detected list as a JavaScript value, null for the
\* empty list
FirstOrNull(xs) == IF xs = <<>> THEN JsNull ELSE JsStr(Head(xs))

\* C8: removed holds, for each category, the first element of the detected
\* list of the analysis, and null exactly when that list is empty
C8_RemovedIsFirstDetected ==
    Analysed =>
        /\ ret.removed.name = FirstOrNull(analysis.detectedPII.names)
        /\ ret.removed.email = FirstOrNull(analysis.detectedPII.emails)
        /\ ret.removed.phone = FirstOrNull(analysis.detectedPII.phones)
        /\ \A kind \in {"name", "email", "phone"} :
              (ret.removed[kind] = JsNull) <=> (analysis.detectedPII[kind \o "s"] = <<>>)

\* two names were detected and no email: removed has the first name and null
C8_Witness ==
    /\ Analysed
    /\ Len(analysis.detectedPII.names) > 1
    /\ ret.removed.name = JsStr(analysis.detectedPII.names[1])
    /\ analysis.detectedPII.emails = <<>>
    /\ ret.removed.email = JsNull

\* the email address that starts at the leftmost position of text where
\* EMAIL_PATTERN matches
LeftmostEmail(text) ==
    LET is == {i \in 0..Len(text) : EmailAt(text, i).index >= 0}
    IN  Slice(text, SetMin(is), EmailAt(text, SetMin(is)).end)

\* C9: when several email addresses were detected in the input,
\* removed.email is the leftmost one of the text
C9_RemovedEmailIsLeftmost ==
    (Analysed /\ Len(analysis.detectedPII.emails) > 1) =>
        ret.removed.email = JsStr(LeftmostEmail(arg.str))

\* x.y@b.co stands before a@b.co and is the one in removed
C9_Witness ==
    /\ Analysed
    /\ analysis.detectedPII.emails = <<"x.y@b.co", "a@b.co">>
    /\ ret.removed.email = JsStr("x.y@b.co")

\* no pattern of ps matches anywhere in text
NoneMatches(ps, text) == \A k \in DOMAIN ps : SearchFrom(ps[k], text, 0).index < 0

\* C10: analyzeText and sanitizeAndBuild on a string do not throw; a category
\* that no pattern matches gives an empty list or a null field, and age,
\* gender and goal are all fields of the extracted context
C10_NeverThrows ==
    (op \in {"analyzeText", "sanitizeAndBuild"} /\ typeof(arg) = "string") =>
        /\ ~threw
        /\ op = "analyzeText" => DOMAIN ret.extractedContext = {"age", "gender", "goal"}
        /\ op = "sanitizeAndBuild" => DOMAIN ret.extracted_context = {"age", "gender", "goal"}
        /\ analysis.ran =>
              LET t == arg.str
                  pii == analysis.detectedPII
                  ctx == analysis.extractedContext
              IN  /\ NoneMatches(NamePatterns, t) => pii.names = <<>>
                  /\ NoneMatches(<<EmailPattern>>, t) => pii.emails = <<>>
                  /\ NoneMatches(PhonePatterns, t) => pii.phones = <<>>
                  /\ NoneMatches(AgePatterns, t) => ctx.age = JsNull
                  /\ NoneMatches(GenderPatterns, t) => ctx.gender = JsNull
                  /\ NoneMatches(GoalPatterns, t) => ctx.goal = JsNull

\* analyzeText returned for a text with an age and nothing else: empty lists
\* and null for gender and goal
C10_Witness ==
    /\ op = "analyzeText"
    /\ ~threw
    /\ ret.detectedPII = NoPII
    /\ ret.extractedContext.age # JsNull
    /\ ret.extractedContext.gender = JsNull
    /\ ret.extractedContext.goal = JsNull

\* the four reasons for which a name is not valid
NameRejected(name) ==
    \/ Len(trim(name)) < 2
    \/ toLowerCase(trim(name)) \in COMMON_WORDS
    \/ \E k \in 1..Len(name) : At(name, k - 1) \notin Letters \cup SpaceChars
    \/ /\ \A k \in 1..Len(name) : At(name, k - 1) \notin LowerChars
       /\ Len(name) > 3

\* C11: isValidName is false for a name whose trimmed form has fewer than 2
\* characters, or is in the stoplist when lower-cased, or that holds a
\* character other than letters and spaces, or that is without lower-case
\* letters and longer than 3 characters; it is true for every other name
C11_IsValidName ==
    op = "isValidName" =>
        /\ ret = ~NameRejected(arg.str)
        /\ arg.str \in {"the", "A", "123", "ACRONYM"} => ret = FALSE
        /\ arg.str \in {"John", "John Smith"} => ret = TRUE

\* a stoplist word in capitals and in spaces was rejected, and a name of two
\* words was accepted
C11_Witness == op = "isValidName" /\ arg.str = " Hello " /\ ret = FALSE

\* the goal in lower case and trimmed, with the prefix that its first word asks for
GoalWithPrefix(goal) ==
    LET g == toLowerCase(trim(goal))
        starts(ws) == \E w \in ws : Len(w) <= Len(g) /\ SubSeq(g, 1, Len(w)) = w
    IN  IF starts({"building", "creating", "developing", "making", "working on",
                   "starting", "launching"}) THEN g
        ELSE IF starts({"a ", "an ", "the "}) THEN "working on " \o g
        ELSE IF starts({"app", "website", "business", "startup", "tool", "platform"})
        THEN "building " \o g
        ELSE "working on " \o g

\* C12 as stated: normalizeGoal returns, for every goal, the goal in lower case
\* and trimmed, unchanged if it starts with a goal verb, with "working on " in
\* front if it starts with an article, with "building " in front if it starts
\* with a product word, and with "working on " in front otherwise
C12_AsStated == op = "normalizeGoal" => ret = GoalWithPrefix(arg.str)

\* C12: normalizeGoal returns the empty string for the empty goal; for every
\* other goal it returns the goal in lower case and trimmed, unchanged if it
\* starts with a goal verb, with "working on " in front if it starts with an
\* article, with "building " in front if it starts with a product word, and with
\* "working on " in front otherwise
C12_NormalizeGoal ==
    op = "normalizeGoal" =>
        /\ ret = (IF arg.str = "" THEN "" ELSE GoalWithPrefix(arg.str))
        /\ arg.str = "mobile app" => ret = "working on mobile app"
        /\ arg.str = "building a website" => ret = "building a website"
        /\ arg.str = "a startup" => ret = "working on a startup"

\* the empty goal came back empty, without a prefix
C12_Witness == op = "normalizeGoal" /\ arg.str = "" /\ ret = ""

\* a and b are the same string up to the case of the letters
SameIgnoringCase(a, b) ==
    /\ Len(a) = Len(b)
    /\ \A k \in 1..Len(a) : LowerChar(At(a, k - 1)) = LowerChar(At(b, k - 1))

\* C13: normalizeGender returns "male" for male, man, guy, boy and gentleman
\* in any letter case, "female" for female, woman, girl and lady in any letter
\* case, and every other term in lower case
C13_NormalizeGender ==
    op = "normalizeGender" =>
        LET isOneOf(ws) == \E w \in ws : SameIgnoringCase(arg.str, w)
        IN  IF isOneOf({"male", "man", "guy", "boy", "gentleman"}) THEN ret = "male"
            ELSE IF isOneOf({"female", "woman", "girl", "lady"}) THEN ret = "female"
            ELSE /\ SameIgnoringCase(ret, arg.str)
                 /\ \A k \in 1..Len(ret) : At(ret, k - 1) \notin UpperChars

\* a term written with capitals was mapped to "male"
C13_Witness == op = "normalizeGender" /\ arg.str = "GentleMan" /\ ret = "male"

\* the cleaned capture of the match m of a goal rule, "" if m is no match
ExtractedGoalText(m) == IF m.index >= 0 THEN extractGoalText(m.groups[1]) ELSE ""

\* matchText trimmed, without the '.', '!' and '?' at its end, and cut to its
\* first 100 characters and "..." if that is longer than 100 characters
GoalTextAsStated(matchText) ==
    LET t == trim(matchText)
        n == CHOOSE n \in 0..Len(t) :
                 /\ \A k \in n..(Len(t) - 1) : At(t, k) \in {".", "!", "?"}
                 /\ n > 0 => At(t, n - 1) \notin {".", "!", "?"}
        stripped == Slice(t, 0, n)
    IN  IF n > 100 THEN Slice(stripped, 0, 100) \o "..." ELSE stripped

\* extractGoal returns the cleaned capture of the first goal rule, in the order
\* of the rules, whose first match gives a cleaned goal longer than 3
\* characters, and null if no rule does
ShortGoalsDiscarded ==
    (op = "extractGoal" /\ ~threw) =>
        LET cleaned == [k \in DOMAIN GoalPatterns |->
                           ExtractedGoalText(SearchFrom(GoalPatterns[k], arg.str, 0))]
            kept == {k \in DOMAIN GoalPatterns : Len(cleaned[k]) > 3}
        IN  /\ ret = (IF kept = {} THEN JsNull ELSE JsStr(cleaned[SetMin(kept)]))
            /\ ret # JsNull => Len(ret.str) > 3

\* C14 as stated: extractGoalText returns its input trimmed, without the
\* trailing '.', '!' and '?', cut to 100 characters and "..." if longer; and
\* extractGoal discards a cleaned goal of 3 characters or fewer
C14_AsStated ==
    /\ op = "extractGoalText" => ret = GoalTextAsStated(arg.str)
    /\ ShortGoalsDiscarded

\* C14: extractGoalText returns its input trimmed, without the trailing '.',
\* '!' and '?', cut to 100 characters and "..." if longer, and trimmed once
\* more; and extractGoal discards a cleaned goal of 3 characters or fewer
C14_ExtractGoalText ==
    /\ op = "extractGoalText" => ret = trim(GoalTextAsStated(arg.str))
    /\ ShortGoalsDiscarded

\* the space between the goal and its punctuation was trimmed away
C14_Witness == op = "extractGoalText" /\ arg.str = "goal !" /\ ret = "goal"

\* C15: for a context whose goal is an empty string or white space only,
\* buildPrompt returns the prompt of the template row without a goal: that of
\* the same context with a null goal, the fallback sentence when age and gender
\* are null too
C15_BlankGoalIsAbsent ==
    (op = "buildPrompt" /\ arg.goal # JsNull /\ trim(arg.goal.str) = "") =>
        /\ ret = TablePrompt([arg EXCEPT !.goal = JsNull])
        /\ (arg.age = JsNull /\ arg.gender = JsNull) =>
               ret = "Suggest relevant tools and services."

\* the goal of two spaces alone was taken as present: the prompt is that of
\* the goal row, with a goal of "working on "
C15_Witness ==
    /\ op = "buildPrompt"
    /\ arg = [age |-> JsNull, gender |-> JsNull, goal |-> JsStr("  ")]
    /\ ret = "Suggest tools for working on ."

\* C16: buildCompletePrompt(s, c) is buildPrompt(c) for every sanitized text s
\* and context c, and the prompt of sanitizeAndBuild is buildPrompt of the
\* extracted context it returns, whatever the sanitized text
C16_EnrichmentNoOp ==
    /\ op = "buildCompletePrompt" => ret = buildPrompt(arg.extractedContext)
    /\ (op = "sanitizeAndBuild" /\ analysis.ran) =>
           ret.prompt = buildPrompt(ret.extracted_context)

\* a sanitized text longer than 20 characters, without placeholders and
\* without a generic opener, left the prompt of the context as it was
C16_Witness ==
    /\ op = "buildCompletePrompt"
    /\ arg.sanitizedText = "I want a really good tool for my project"
    /\ arg.extractedContext = [age |-> JsNull, gender |-> JsNull, goal |-> JsStr("App")]
    /\ ret = "Suggest tools for building app."

\* there is a word boundary at position j of s
BoundaryAt(s, j) ==
    (j > 0 /\ At(s, j - 1) \in WordChars) # (j < Len(s) /\ At(s, j) \in WordChars)

\* w occurs in s as a whole word, in any letter case
HasWord(s, w) ==
    \E i \in 0..(Len(s) - Len(w)) :
        /\ toLowerCase(Slice(s, i, i + Len(w))) = toLowerCase(w)
        /\ BoundaryAt(s, i)
        /\ BoundaryAt(s, i + Len(w))

\* C17: the sanitized text that removePII makes of the text and of what was
\* detected in it holds no detected name as a whole word in any letter case,
\* no detected email and no detected phone number
C17_EveryOccurrenceRemoved ==
    (op = "analyzeText" /\ ~threw) =>
        /\ \A k \in DOMAIN ret.detectedPII.names :
               ~HasWord(ret.sanitizedText, ret.detectedPII.names[k])
        /\ \A k \in DOMAIN ret.detectedPII.emails :
               ~includes(ret.sanitizedText, ret.detectedPII.emails[k])
        /\ \A k \in DOMAIN ret.detectedPII.phones :
               ~includes(ret.sanitizedText, ret.detectedPII.phones[k])

\* the email occurs twice in the text, is detected once, and its second
\* occurrence is still in the sanitized text
C17_Witness ==
    /\ op = "analyzeText"
    /\ ~threw
    /\ arg = JsStr("a@b.co a@b.co ")
    /\ ret.detectedPII.emails = <<"a@b.co">>
    /\ ret.sanitizedText = "[EMAIL] a@b.co"

\* the characters i..j-1 of s are an upper-case letter and then one or more
\* lower-case letters
CapitalizedWord(s, i, j) ==
    /\ j - i >= 2
    /\ At(s, i) \in UpperChars
    /\ \A k \in (i + 1)..(j - 1) : At(s, k) \in LowerChars

\* s is one capitalized word, or two with white space between them
CapitalizedWords(s) ==
    \/ CapitalizedWord(s, 0, Len(s))
    \/ \E i \in 2..(Len(s) - 3) : \E j \in (i + 1)..(Len(s) - 2) :
           /\ CapitalizedWord(s, 0, i)
           /\ \A k \in i..(j - 1) : At(s, k) \in SpaceChars
           /\ CapitalizedWord(s, j, Len(s))

\* C18: every name that detectNames returns is one or two capitalized words,
\* each an upper-case letter followed by lower-case letters
C18_NamesCapitalized ==
    (op = "detectNames" /\ ~threw) => \A k \in DOMAIN ret : CapitalizedWords(ret[k])

\* a name written without a capital was returned
C18_Witness ==
    /\ op = "detectNames"
    /\ ~threw
    /\ arg = JsStr("call me ann ")
    /\ ret = <<"ann">>

\* the captures of all the matches of the name rules in text: those of rule
\* 1 in the order of the text, then those of rule 2, then those of rule 3
NameCandidates(text) ==
    LET ms == ScanAll(NamePatterns[1], text, 0) \o ScanAll(NamePatterns[2], text, 0)
                  \o ScanAll(NamePatterns[3], text, 0)
    IN  [k \in DOMAIN ms |-> ms[k].groups[1]]

\* the candidates that pass isValidName and hold none of "the ", "a ", "an "
KeptNames(names) ==
    LET keep(name) ==
            /\ isValidName(name)
            /\ \A phrase \in {"the ", "a ", "an "} : ~includes(toLowerCase(name), phrase)
    IN  SelectSeq(names, keep)

\* names without the elements that an earlier element equals up to case
FirstOccurrences(names) ==
    LET first == {k \in DOMAIN names :
                      \A j \in 1..(k - 1) : ~SameIgnoringCase(names[j], names[k])}
        nth(n) == CHOOSE k \in first : Cardinality({j \in first : j <= k}) = n
    IN  [n \in 1..Cardinality(first) |-> names[nth(n)]]

\* C19: detectNames returns the captures of all the matches of rule 1, then of
\* rule 2, then of rule 3, that pass isValidName and the phrase guard, without
\* those that an earlier one equals up to case, in that order; no two names
\* returned are equal up to case
C19_NamesInRuleOrder ==
    (op = "detectNames" /\ ~threw) =>
        /\ ret = FirstOccurrences(KeptNames(NameCandidates(arg.str)))
        /\ \A j, k \in DOMAIN ret : SameIgnoringCase(ret[j], ret[k]) => j = k

\* the name of rule 1 comes before the name of rule 3, which is earlier in the
\* text
C19_Witness ==
    /\ op = "detectNames"
    /\ ~threw
    /\ arg = JsStr("this is Bob here! I'm Ann. ")
    /\ ret = <<"Ann", "Bob">>

\* the integer that the match m of an age rule captures, -1 if m is no match
CapturedAge(m) == IF m.index >= 0 THEN parseInt(m.groups[1]) ELSE -1

\* C20: extractAge returns the integer captured by the first age rule, in the
\* order of the list, whose match captures an integer from 13 to 100, a rule
\* whose match captures another integer being passed over; it returns null if
\* there is no such rule
C20_FirstRuleInRange ==
    (op = "extractAge" /\ ~threw) =>
        LET ages == [k \in DOMAIN AgePatterns |->
                        CapturedAge(SearchFrom(AgePatterns[k], arg.str, 0))]
            inRange == {k \in DOMAIN AgePatterns : ages[k] >= 13 /\ ages[k] <= 100}
        IN  ret = (IF inRange = {} THEN JsNull ELSE JsNum(ages[SetMin(inRange)]))

\* rule 1 captured 5, which was discarded, and rule 2 gave 27
C20_Witness ==
    /\ op = "extractAge"
    /\ ~threw
    /\ arg = JsStr("I'm 5 27 years old ")
    /\ CapturedAge(SearchFrom(AgePatterns[1], arg.str, 0)) = 5
    /\ ret = JsNum(27)

\* the patterns of an extraction method, in the order in which it tries them
PatternsOf(method) ==
    CASE method = "extractAge" -> AgePatterns
      [] method = "extractGender" -> GenderPatterns
      [] method = "extractGoal" -> GoalPatterns

\* the method accepts the match m of one of its patterns
Accepts(method, m) ==
    CASE method = "extractAge" -> CapturedAge(m) >= 13 /\ CapturedAge(m) <= 100
      [] method = "extractGender" -> m.index >= 0
      [] method = "extractGoal" -> Len(ExtractedGoalText(m)) > 3

\* what the method returns for the match m that it accepts
ValueOf(method, m) ==
    CASE method = "extractAge" -> JsNum(CapturedAge(m))
      [] method = "extractGender" -> JsStr(normalizeGender(m.groups[1]))
      [] method = "extractGoal" -> JsStr(ExtractedGoalText(m))

\* the first match in text of each pattern of the method
FirstMatches(method, text) ==
    [k \in DOMAIN PatternsOf(method) |-> SearchFrom(PatternsOf(method)[k], text, 0)]

\* the call of the method returned value and changed the cursors from before
\* to after as it does when ms are the first matches of its patterns, the
\* patterns up to the first one in stops are consulted, each leaving its
\* cursor at the end of its match or at 0, that one decides the value, and no
\* later pattern is consulted
DecidedAt(method, ms, value, before, after, stops) ==
    LET ps == PatternsOf(method)
        last == IF stops = {} THEN Len(ps) ELSE SetMin(stops)
    IN  /\ value = (IF stops # {} /\ Accepts(method, ms[last])
                    THEN ValueOf(method, ms[last]) ELSE JsNull)
        /\ \A k \in 1..last : after[ps[k]] = ExecResult(ms[k]).lastIndex
        /\ \A k \in (last + 1)..Len(ps) : after[ps[k]] = before[ps[k]]

\* the patterns, of those with the first matches ms, that match
Matching(ms) == {k \in DOMAIN ms : ms[k].index >= 0}

\* the patterns, of those with the first matches ms, whose match the method
\* accepts
Accepted(method, ms) == {k \in DOMAIN ms : Accepts(method, ms[k])}

\* C21 as stated: extractAge, extractGender and extractGoal stop at the first
\* pattern of their list that matches anywhere in the text: that match alone
\* decides the result and no later pattern is consulted
C21_AsStated ==
    [][(op' \in {"extractAge", "extractGender", "extractGoal"} /\ ~threw') =>
           \E ms \in {FirstMatches(op', arg'.str)} :
               DecidedAt(op', ms, ret', lastIndex, lastIndex', Matching(ms))]_vars

\* C21: extractAge, extractGender and extractGoal stop at the first pattern of
\* their list whose first match they accept (an age from 13 to 100, any
\* gender, a cleaned goal of more than 3 characters): a pattern whose match is
\* not accepted is passed over, the accepted match alone decides the result,
\* and no later pattern is consulted
C21_FirstAcceptedDecides ==
    [][(op' \in {"extractAge", "extractGender", "extractGoal"} /\ ~threw') =>
           \E ms \in {FirstMatches(op', arg'.str)} :
               DecidedAt(op', ms, ret', lastIndex, lastIndex', Accepted(op', ms))]_vars

\* extractGoal returned the goal of the first rule; the third rule, not
\* consulted, still has the cursor that an earlier call left
C21_Witness ==
    /\ op = "extractGoal"
    /\ arg = JsStr("I'm a woman making $$ for Ann. ")
    /\ ret = JsStr("making $$ for Ann")
    /\ lastIndex["goals0"] = 29
    /\ lastIndex["goals2"] > 0

\* C22: a call of analyzeText leaves all the state shared between calls as it
\* was: after the call the cursor (lastIndex) of every shared pattern is the
\* same as before the call
C22_AnalyzeTextNoSideEffect ==
    [][op' = "analyzeText" => lastIndex' = lastIndex]_vars

\* after analyzeText on a text with an age the cursor of the age rule that
\* matched is at the end of its match, and was 0 before the call
C22_Witness ==
    /\ op = "analyzeText"
    /\ ~threw
    /\ arg = JsStr("27 years old ")
    /\ ret.extractedContext.age = JsNum(27)
    /\ lastIndex["ages1"] = 12

\* the matches of phone rule k in text
PhoneMatchesOf(text, k) ==
    LET ms == ScanAll(PhonePatterns[k], text, 0) IN {ms[j] : j \in DOMAIN ms}

\* the digits of s, in their order
DigitsIn(s) == Concat([k \in 1..Len(s) |-> IF At(s, k - 1) \in Digits THEN At(s, k - 1) ELSE ""],
                      1, Len(s))

\* the entry that the match m of phone rule k stands for: "(A) B-C" for the
\* three groups of digits A, B, C that end a match of the first four rules,
\* the matched text for the rule without groups
PhoneEntry(text, k, m) ==
    LET matched == Slice(text, m.index, m.end)
        ds == DigitsIn(matched)
        n == Len(ds)
    IN  IF k <= 4
        THEN "(" \o Slice(ds, n - 10, n - 7) \o ") " \o Slice(ds, n - 7, n - 4)
                 \o "-" \o Slice(ds, n - 4, n)
        ELSE matched

\* C23: the entries of detectPhones are those of the matches of the phone
\* rules: "(A) B-C" for a match of a rule with the three groups of digits A, B
\* and C, the matched text for a match of the international rule, which has no
\* group; no rule has another number of groups
C23_PhonesReconstructed ==
    (op = "detectPhones" /\ ~threw) =>
        LET ms == [k \in DOMAIN PhonePatterns |-> PhoneMatchesOf(arg.str, k)]
        IN  /\ {ret[j] : j \in DOMAIN ret} =
                   UNION {{PhoneEntry(arg.str, k, m) : m \in ms[k]} : k \in DOMAIN PhonePatterns}
            /\ \A k \in DOMAIN PhonePatterns : \A m \in ms[k] :
                   /\ Len(m.groups) = (IF k <= 4 THEN 3 ELSE 0)
                   /\ k <= 4 => DigitsIn(m.groups[1] \o m.groups[2] \o m.groups[3])
                                    = m.groups[1] \o m.groups[2] \o m.groups[3]

\* a number written with +1 is returned in the form of the three groups, and
\* what the international rule matched of it as it is written
C23_Witness ==
    /\ op = "detectPhones"
    /\ ~threw
    /\ arg = JsStr("+1 555 123 4567")
    /\ ret = <<"(555) 123-4567", "+1 555">>

\* C24: the sanitized text of analyzeText has no white space at its start or
\* at its end, and every white space character in it is a space that no white
\* space character follows
C24_WhitespaceNormalized ==
    (op = "analyzeText" /\ ~threw) =>
        LET s == ret.sanitizedText
        IN  /\ At(s, 0) \notin SpaceChars
            /\ At(s, Len(s) - 1) \notin SpaceChars
            /\ \A k \in 0..(Len(s) - 1) :
                   At(s, k) \in SpaceChars => At(s, k) = " " /\ At(s, k + 1) \notin SpaceChars

\* the tabs, line ends and spaces between the parts of the text are single
\* spaces in the sanitized text, and those at its end are gone
C24_Witness ==
    /\ op = "analyzeText"
    /\ ~threw
    /\ arg = JsStr("I'm Ann. \t a@b.co \n\n 555-123-4567  ")
    /\ ret.sanitizedText = "I'm [NAME]. [EMAIL] 555-123-4567"

\* no element of the list xs is empty or white space only
NoBlankEntry(xs) == \A k \in DOMAIN xs : trim(xs[k]) # ""

\* C25: no entry of the names, emails and phones that analyzeText returns, and
\* that detectNames, detectEmails and detectPhones return, is empty or white
\* space only
C25_NoBlankEntry ==
    /\ (op = "analyzeText" /\ ~threw) =>
           /\ NoBlankEntry(ret.detectedPII.names)
           /\ NoBlankEntry(ret.detectedPII.emails)
           /\ NoBlankEntry(ret.detectedPII.phones)
    /\ (op \in {"detectNames", "detectEmails", "detectPhones"} /\ ~threw) => NoBlankEntry(ret)

\* analyzeText returned a name, an email and two phone entries, the shortest
\* of them of three characters
C25_Witness ==
    /\ op = "analyzeText"
    /\ ~threw
    /\ ret.detectedPII = [names |-> <<"Ann">>, emails |-> <<"a@b.co">>,
                          phones |-> <<"(555) 123-4567", "+7 900">>]

\* xs without the elements that an earlier element equals
FirstDistinct(xs) ==
    LET first == {k \in DOMAIN xs : \A j \in 1..(k - 1) : xs[j] # xs[k]}
        nth(n) == CHOOSE k \in first : Cardinality({j \in first : j <= k}) = n
    IN  [n \in 1..Cardinality(first) |-> xs[nth(n)]]

\* the entries of the matches of phone rule k in text, in the order of the text
PhoneEntriesOf(text, k) ==
    LET ms == ScanAll(PhonePatterns[k], text, 0)
    IN  [j \in DOMAIN ms |-> PhoneEntry(text, k, ms[j])]

\* the matched texts of the email rule in text, in the order of the text
EmailEntries(text) ==
    LET ms == ScanAll(EmailPattern, text, 0)
    IN  [j \in DOMAIN ms |-> Slice(text, ms[j].index, ms[j].end)]

\* C26: detectEmails and detectPhones return what they detected (the emails in
\* the order of the text; the phone entries rule after rule, those of a rule
\* in the order of the text) without the entries that an earlier entry equals
\* exactly, letter case included; no two entries returned are the same string
C26_DistinctInDetectionOrder ==
    /\ (op = "detectEmails" /\ ~threw) => ret = FirstDistinct(EmailEntries(arg.str))
    /\ (op = "detectPhones" /\ ~threw) =>
           ret = FirstDistinct(PhoneEntriesOf(arg.str, 1) \o PhoneEntriesOf(arg.str, 2)
                                   \o PhoneEntriesOf(arg.str, 3) \o PhoneEntriesOf(arg.str, 4)
                                   \o PhoneEntriesOf(arg.str, 5))
    /\ (op \in {"detectEmails", "detectPhones"} /\ ~threw) =>
           \A j, k \in DOMAIN ret : ret[j] = ret[k] => j = k

\* of three emails the third, equal to the first, is dropped, and the second,
\* which differs from the first by a capital, is kept
C26_Witness ==
    /\ op = "detectEmails"
    /\ ~threw
    /\ arg = JsStr("a@b.co A@b.co a@b.co")
    /\ ret = <<"a@b.co", "A@b.co">>

\* goal is null or a string of 4 to 103 characters without white space at its
\* start and at its end
GoalWellFormed(goal) ==
    \/ goal = JsNull
    \/ /\ goal.type = "string"
       /\ Len(goal.str) > 3
       /\ Len(goal.str) <= 103
       /\ At(goal.str, 0) \notin SpaceChars
       /\ At(goal.str, Len(goal.str) - 1) \notin SpaceChars

\* C27: the goal of the extracted context of sanitizeAndBuild and of
\* analyzeText, and the goal that extractGoal returns, is null or a string
\* without leading or trailing white space, of more than 3 and at most 103
\* characters
C27_GoalWellFormed ==
    /\ (op = "sanitizeAndBuild" /\ ~threw) => GoalWellFormed(ret.extracted_context.goal)
    /\ (op = "analyzeText" /\ ~threw) => GoalWellFormed(ret.extractedContext.goal)
    /\ (op = "extractGoal" /\ ~threw) => GoalWellFormed(ret)

\* a text of 124 characters, all of it a goal: the goal of the context is its
\* first 100 characters and "..."
C27_Witness ==
    /\ Analysed
    /\ Len(arg.str) = 124
    /\ Len(ret.extracted_context.goal.str) = 103
    /\ Slice(ret.extracted_context.goal.str, 0, 100) = Slice(arg.str, 0, 100)
    /\ Slice(ret.extracted_context.goal.str, 100, 103) = "..."

\* C28: every scan loop of detectNames, detectEmails and detectPhones ends:
\* each iteration takes a match that is not empty and moves the cursor of the
\* pattern forward, within the text, so that the loop takes at most as many
\* matches as the text has characters, and then exec returns null
C28_ScanTerminates ==
    /\ <>(op = "scanned")
    /\ [][op' = "scanning" =>
             /\ lastIndex'[arg.pattern] > lastIndex[arg.pattern]
             /\ lastIndex'[arg.pattern] <= Len(arg.text)
             /\ ret'[Len(ret')].end > ret'[Len(ret')].index
             /\ ret'[Len(ret')].index >= lastIndex[arg.pattern]]_vars
    /\ [](Len(ret) <= Len(arg.text))

\* the loop of the international phone rule ended after three matches
C28_Witness ==
    /\ op = "scanned"
    /\ arg.text = "+44-20 and +44-20, +12"
    /\ arg.pattern = "phones4"
    /\ Len(ret) = 3
    /\ lastIndex["phones4"] = 0

\* C29: the gender that extractGender returns, and that of the extracted
\* context of analyzeText and sanitizeAndBuild, is null, "male" or "female";
\* every word that a gender rule captures, in lower case, is one of the words
\* that normalizeGender maps to "male" or "female"
C29_GenderMaleFemaleOrNull ==
    /\ (op = "extractGender" /\ ~threw) => ret \in {JsNull, JsStr("male"), JsStr("female")}
    /\ (op = "analyzeText" /\ ~threw) =>
           ret.extractedContext.gender \in {JsNull, JsStr("male"), JsStr("female")}
    /\ (op = "sanitizeAndBuild" /\ ~threw) =>
           ret.extracted_context.gender \in {JsNull, JsStr("male"), JsStr("female")}
    /\ (op = "extractGender" /\ ~threw) =>
           \A k \in DOMAIN GenderPatterns :
               LET ms == ScanAll(GenderPatterns[k], arg.str, 0)
               IN  \A j \in DOMAIN ms :
                       toLowerCase(ms[j].groups[1]) \in
                           {"male", "man", "guy", "boy", "gentleman",
                            "female", "woman", "girl", "lady"}

\* a gender word written with capitals gave "male"
C29_Witness ==
    /\ op = "extractGender"
    /\ ~threw
    /\ arg = JsStr("He is a GentleMan")
    /\ ret = JsStr("male")

\* C30: for every goal that is not the empty string, normalizeGoal returns a
\* string that starts with one of building, creating, developing, making,
\* working on, starting, launching, and that normalizeGoal leaves as it is
C30_NormalizeGoalIdempotent ==
    (op = "normalizeGoal" /\ arg.str # "") =>
        /\ \E verb \in {"building", "creating", "developing", "making", "working on",
                        "starting", "launching"} : startsWith(ret, verb)
        /\ normalizeGoal(ret) = ret

\* the goal of two spaces gives "working on " with a space at its end, which
\* a second normalizeGoal takes away
C30_Witness ==
    /\ op = "normalizeGoal"
    /\ arg.str = "  "
    /\ ret = "working on "
    /\ normalizeGoal(ret) = "working on"

====
